---- MODULE Spec2Model ----
(***************************************************************************)
(* Model of the per-tenant worker orchestrator (orchestrator/              *)
(* worker_manager.py with admin/tenant_service.py and models/tenant.py)    *)
(* and of the request/response queue between the queue client              *)
(* (trading_queue.py) and the trading worker (trading_worker.py).          *)
(*                                                                         *)
(* Spec        the orchestrator: the worker_instances table, the container *)
(*             backend, the audit log and concurrent WorkerManager calls.  *)
(* SpecWorker  one tenant's request queue, its clients and its worker.     *)
(***************************************************************************)
EXTENDS Integers, Sequences, FiniteSets, TLC

(***************************************************************************)
(* Bounds of the model.                                                    *)
(***************************************************************************)
NumTenants == 2
NumManagers == 2
MaxAudit == 5
MaxAuditConcurrent == 3
MaxRows == 3
MaxContainers == 3
NumClients == 2
MaxRequests == 2
MaxSessions == 3
MaxExhausted == 2
MaxQuantity == 5
MaxHealthChecks == 2
NumThreads == 3
StartTime == 1000
MaxDrift == 2
NumCallers == 3
MaxPositions == 2

(***************************************************************************)
(* Program constants.                                                      *)
(***************************************************************************)
\* range(16) in allocate_redis_db: Redis database numbers 0..15
NumRedisDbs == 16
\* a NULL container_id column (container ids of the model start at 1)
NoContainer == 0
\* "no row": get_worker_instance(...).first() returned None (row ids start at 1)
NoRow == 0
\* allocate_redis_db found no free number (it raises TenantServiceError)
NoSlot == -1
\* api_clients[simulation] is None
NoSession == 0
\* no request: request ids of the model start at 1
NoRequestId == 0

Tenants == 1..NumTenants
Managers == 1..NumManagers

\* models/tenant.py WorkerStatus
WorkerStatus ==
    {"pending", "starting", "running", "hibernating", "stopping", "stopped", "error"}

VARIABLES
    instances,        \* committed rows of table worker_instances
    containers,       \* containers known to the Docker backend
    audit,            \* committed rows of tenant_audit_log, in insertion order
    credentials,      \* tenants with a shioaji_api TenantCredential row
    mgr,              \* per WorkerManager call in flight: position and locals of create_worker
    last,             \* the call step taken last and its outcome
    nextRowId,        \* next fresh worker_instances.id
    nextContainerId,  \* next fresh container id of the backend
    serial            \* TRUE: the orchestrator serves one call at a time; FALSE: calls interleave

orchVars ==
    <<instances, containers, audit, credentials, mgr, last, nextRowId, nextContainerId,
      serial>>

VARIABLES
    requestQueue,     \* Redis list <prefix>trading:requests
    responseKeys,     \* Redis lists <prefix>trading:response:<request_id>, by request id
    clients,          \* per queue client: position in submit_request and what it returned
    nextRequestId,    \* next fresh request id (uuid4)
    wpc,              \* position of TradingWorker.run
    request,          \* the request the loop iteration popped
    response,         \* the response _handle_request returned
    api_clients,      \* TradingWorker.api_clients: simulation -> session
    invalidating,     \* TradingWorker._invalidating: simulation -> flag
    pending_trades,   \* TradingWorker.pending_trades: the trades stored for status checks,
                      \* each with the session and the mode it was placed under
    nextSession,      \* next fresh sj.Shioaji object
    nextOrder,        \* next fresh order id:seqno the brokerage hands out
    fault,            \* history: the error the operation of the request being handled
                      \* ran into
    used,             \* history: the session the request being handled ran against
    faulted,          \* history: sessions (with their mode) an error classified as
                      \* connection fault came from
    handling,         \* history: requests popped and not yet answered
    pushOrder,        \* history: request ids in the order they were pushed
    popOrder,         \* history: request ids in the order they were popped
    respOrder,        \* history: request ids in the order their responses were pushed
    delivered,        \* history: per request id, the responses submit_request returned
    ttl,              \* per request id: the response key has an expiry set
    running,          \* TradingWorker.running
    signalled,        \* history: a termination signal was delivered while run() was running
    attempts,         \* history: the login attempts _get_api_client made for the request
                      \* being handled
    exhausted,        \* history: per mode, how many calls of _get_api_client have failed
                      \* on every attempt, counted up to MaxExhausted
    order_in,         \* an order request with the positions and the fault the SDK answers with
    order_out,        \* what the order handler did with order_in
    gateway_in,       \* an order request as a gateway endpoint received it
    clock,            \* time.time(), in seconds
    last_successful_request, \* TradingWorker._last_successful_request: simulation -> time
    last_health_check, \* run()'s local last_health_check
    connection_lock,  \* TradingWorker._connection_lock: the thread holding it
    threads,          \* each thread's position in the connection code, and its locals
    sessions,         \* every sj.Shioaji object: its mode, logged in?, logout calls
    sdk_call,         \* the call the last step made into the SDK, and its result
    store,            \* one Redis database shared by several tenants: key -> list
    callers,          \* request handlers of the gateway, each in a submit_request call
    tworkers,         \* one worker per tenant: position and the request it popped
    nextUuid          \* next fresh uuid4

workerVars ==
    <<requestQueue, responseKeys, clients, nextRequestId, wpc, request, response,
      api_clients, invalidating, pending_trades, nextSession, nextOrder, fault, used,
      faulted, handling, pushOrder, popOrder, respOrder, delivered, ttl, running,
      signalled, attempts, exhausted, order_in, order_out, gateway_in,
      clock, last_successful_request, last_health_check, connection_lock, threads,
      sessions, sdk_call, store, callers, tworkers, nextUuid>>

orderVars == <<order_in, order_out, gateway_in>>

connVars ==
    <<clock, last_successful_request, last_health_check, connection_lock, threads,
      sessions, sdk_call>>

tenantVars == <<store, callers, tworkers, nextUuid>>

\* the queue side of the worker and its clients
queueVars ==
    <<requestQueue, responseKeys, clients, nextRequestId, wpc, request, response,
      pending_trades, nextOrder, fault, used, faulted, handling, pushOrder, popOrder,
      respOrder, delivered, ttl, running, signalled, attempts, exhausted>>

----------------------------------------------------------------------------
(***************************************************************************)
(* TenantService: queries on worker_instances.                             *)
(***************************************************************************)

\* get_worker_instance: the rows the filter tenant_id == t matches
RowsOf(t) == {r \in instances : r.tenant_id = t}

\* what .first() can return: a matching row id, or NoRow when none matches
FirstOf(t) == IF RowsOf(t) = {} THEN {NoRow} ELSE {r.id : r \in RowsOf(t)}

RowById(id) == CHOOSE r \in instances : r.id = id

HasRow(id) == \E r \in instances : r.id = id

\* mutant: a hibernating instance does not count as holding its Redis database
AllocatedStatuses_NoHibernating == {"pending", "starting", "running"}

\* the statuses allocate_redis_db counts as holding a Redis database
AllocatedStatuses == {"pending", "starting", "running", "hibernating"}

UsedDbs(rows) == {r.redis_db : r \in {x \in rows : x.status \in AllocatedStatuses}}

SetMin(S) == CHOOSE x \in S : \A y \in S : x <= y

SetMax(S) == CHOOSE x \in S : \A y \in S : x >= y

\* mutant: the highest free number is returned instead of the lowest
allocate_redis_db_Highest(rows) ==
    LET free == (0 .. NumRedisDbs - 1) \ UsedDbs(rows)
    IN  IF free = {} THEN NoSlot ELSE SetMax(free)

\* allocate_redis_db: the lowest number of range(16) not used, or NoSlot
allocate_redis_db(rows) ==
    LET free == (0 .. NumRedisDbs - 1) \ UsedDbs(rows)
    IN  IF free = {} THEN NoSlot ELSE SetMin(free)

\* mutant: create_worker also accepts a hibernating instance
CreateAllowedStatuses_Hibernating == {"stopped", "error", "hibernating"}

\* the statuses in which create_worker accepts an existing instance
CreateAllowedStatuses == {"stopped", "error"}

\* mutant: the unique constraint on tenant_id is missing
TenantIdUnique_Unchecked(rows, t) == TRUE

\* unique=True on worker_instances.tenant_id: may a row for t be inserted?
TenantIdUnique(rows, t) == \A r \in rows : r.tenant_id # t

\* WorkerInstance(tenant_id, redis_db, status=PENDING) with the column defaults
NewInstance(id, t, db) ==
    [id |-> id, tenant_id |-> t, container_id |-> NoContainer, status |-> "pending",
     redis_db |-> db, started_at |-> "null", stopped_at |-> "null",
     error_message |-> "null", health_status |-> "unknown", last_health_check |-> 0]

\* _log_audit: the TenantAuditLog row added to the session
AuditEntry(action, t, cid, db) ==
    [action |-> action, tenant_id |-> t, container_id |-> cid, redis_db |-> db]

\* containers.get(container_id): the matching container, if the backend has it
ContainerFound(cid) == \E c \in containers : c.id = cid

ContainerById(cid) == CHOOSE c \in containers : c.id = cid

\* container name worker-<slug> is unique at the backend: a create with a name in use fails
NameInUse(t) == \E c \in containers : c.name = t

SetContainerState(cid, st) ==
    {IF c.id = cid THEN [c EXCEPT !.state = st] ELSE c : c \in containers}

ReplaceRow(id, new) == (instances \ {RowById(id)}) \cup {new}

IdleCall == [pc |-> "idle", tenant_id |-> 0, row |-> NoRow, existing |-> FALSE,
             redis_db |-> NoSlot]

\* a call step: the operation, the tenant, how it ended (the error type raised, if
\* any) and, for WorkerManagerError, the exception it wraps
EventBecause(op, t, outcome, cause) ==
    [op |-> op, tenant_id |-> t, outcome |-> outcome, cause |-> cause]

Event(op, t, outcome) == EventBecause(op, t, outcome, "none")

\* the audit entries of the tenants whose calls the model makes
OwnAudit == SelectSeq(audit, LAMBDA e : e.tenant_id \in Tenants)

\* the audit log is capped so that the model is finite
AuditHasRoom == Len(OwnAudit) < (IF serial THEN MaxAudit ELSE MaxAuditConcurrent)

\* may manager m take a step of a call: always when calls interleave, and only
\* while no other call is in flight when the orchestrator is serial
MayStep(m) == ~serial \/ \A x \in Managers \ {m} : mgr[x].pc = "idle"

MayCall == ~serial \/ \A x \in Managers : mgr[x].pc = "idle"

----------------------------------------------------------------------------
(***************************************************************************)
(* WorkerManager.create_worker, in the three places where another call can *)
(* interleave: after the reads, after create_worker_instance's commit, and *)
(* at the final commit.                                                    *)
(***************************************************************************)

\* lines 164-193: the existence check, the credential check, allocate_redis_db and,
\* for an existing Stopped/Error instance, the in-session field updates
CreateBegin(m, t) ==
    /\ mgr[m].pc = "idle"
    /\ MayStep(m)
    /\ AuditHasRoom
    /\ \E ex \in FirstOf(t) :
         IF ex # NoRow /\ RowById(ex).status \notin CreateAllowedStatuses
         THEN /\ last' = Event("create", t, "WorkerAlreadyRunningError")
              /\ UNCHANGED mgr
         ELSE IF t \notin credentials
         THEN /\ last' = Event("create", t, "CredentialsNotFoundError")
              /\ UNCHANGED mgr
         ELSE IF allocate_redis_db(instances) = NoSlot
         THEN /\ last' = EventBecause("create", t, "WorkerManagerError", "TenantServiceError")
              /\ UNCHANGED mgr
         ELSE /\ mgr' = [mgr EXCEPT ![m] =
                    [pc |-> IF ex = NoRow THEN "allocated" ELSE "written",
                     tenant_id |-> t, row |-> ex, existing |-> ex # NoRow,
                     redis_db |-> allocate_redis_db(instances)]]
              /\ last' = Event("create", t, "allocated")
    /\ UNCHANGED <<instances, containers, audit, credentials, nextRowId, nextContainerId,
                   serial, workerVars>>

\* line 195, create_worker_instance: INSERT and commit; a second row for the tenant
\* violates the unique constraint, which create_worker turns into WorkerManagerError
CreateInsert(m) ==
    /\ mgr[m].pc = "allocated"
    /\ nextRowId <= MaxRows
    /\ LET t == mgr[m].tenant_id IN
       IF TenantIdUnique(instances, t)
       THEN /\ instances' = instances \cup {NewInstance(nextRowId, t, mgr[m].redis_db)}
            /\ nextRowId' = nextRowId + 1
            /\ mgr' = [mgr EXCEPT ![m].pc = "written", ![m].row = nextRowId]
            /\ last' = Event("create_insert", t, "inserted")
       ELSE /\ mgr' = [mgr EXCEPT ![m] = IdleCall]
            /\ last' = EventBecause("create_insert", t, "WorkerManagerError",
                                    "IntegrityError")
            /\ UNCHANGED <<instances, nextRowId>>
    /\ UNCHANGED <<containers, audit, credentials, nextContainerId, serial, workerVars>>

\* lines 197-202: export_for_worker returned nothing; the exception is re-raised
\* without a commit, so the session's pending changes are dropped when it is closed
CreateExportFails(m) ==
    /\ mgr[m].pc = "written"
    /\ mgr' = [mgr EXCEPT ![m] = IdleCall]
    /\ last' = Event("create_finish", mgr[m].tenant_id, "CredentialsNotFoundError")
    /\ UNCHANGED <<instances, containers, audit, credentials, nextRowId, nextContainerId,
                   serial, workerVars>>

\* lines 266-270 and 283-286: containers.create raised APIError (always when the name
\* worker-<slug> is in use); status=ERROR is set in the session and then rolled back
CreateContainerFails(m) ==
    /\ mgr[m].pc = "written"
    /\ mgr' = [mgr EXCEPT ![m] = IdleCall]
    /\ last' = EventBecause("create_finish", mgr[m].tenant_id, "WorkerManagerError",
                            "APIError")
    /\ UNCHANGED <<instances, containers, audit, credentials, nextRowId, nextContainerId,
                   serial, workerVars>>

\* lines 243-279: the container is created, the instance gets its id, the audit entry
\* is added and everything is committed; the UPDATE fails when the row is gone
CreateFinish(m) ==
    /\ mgr[m].pc = "written"
    /\ ~NameInUse(mgr[m].tenant_id)
    /\ nextContainerId <= MaxContainers
    /\ LET t == mgr[m].tenant_id
           cid == nextContainerId
       IN  /\ containers' = containers \cup {[id |-> cid, name |-> t, state |-> "created"]}
           /\ nextContainerId' = cid + 1
           /\ mgr' = [mgr EXCEPT ![m] = IdleCall]
           /\ IF HasRow(mgr[m].row)
              THEN /\ instances' = ReplaceRow(mgr[m].row,
                         [RowById(mgr[m].row) EXCEPT
                              !.container_id = cid, !.status = "pending",
                              !.redis_db = IF mgr[m].existing THEN mgr[m].redis_db ELSE @,
                              !.error_message = IF mgr[m].existing THEN "null" ELSE @])
                   /\ audit' = Append(audit,
                         AuditEntry("worker_started", t, cid, mgr[m].redis_db))
                   /\ last' = Event("create_finish", t, "ok")
              ELSE /\ last' = EventBecause("create_finish", t, "WorkerManagerError",
                                           "StaleDataError")
                   /\ UNCHANGED <<instances, audit>>
    /\ UNCHANGED <<credentials, nextRowId, serial, workerVars>>

----------------------------------------------------------------------------
(***************************************************************************)
(* start, stop, hibernate, wake and destroy: each call runs in its own     *)
(* session; a call that raises commits nothing.                            *)
(***************************************************************************)

\* mutant: start_worker does not return early on a running instance
StartNoopStatuses_None == {}

\* start_worker, lines 311-312: the statuses in which start returns the instance as it is
StartNoopStatuses == {"running"}

\* mutant: stop_worker returns early only on a stopped instance
StopNoopStatuses_OnlyStopped == {"stopped"}

\* stop_worker, lines 365-366: the statuses in which stop returns the instance as it is
StopNoopStatuses == {"stopped", "pending"}

\* mutant: wake_worker also accepts a stopped instance
WakeStatuses_AlsoStopped == {"hibernating", "stopped"}

\* wake_worker, lines 455-456: the status wake requires
WakeStatuses == {"hibernating"}

\* mutant: the stop timestamp is left as it was
Started_KeepsStopTime(r) ==
    [r EXCEPT !.status = "running", !.started_at = "set", !.error_message = "null"]

\* start_worker, lines 319-322: the fields set after container.start()
Started(r) ==
    [r EXCEPT !.status = "running", !.started_at = "set", !.stopped_at = "null",
              !.error_message = "null"]

\* stop_worker, lines 373-378: the fields set after container.stop() or NotFound
Stopped(r) == [r EXCEPT !.status = "stopped", !.stopped_at = "set"]

\* hibernate_worker, lines 422-423
Hibernated(r) == [r EXCEPT !.status = "hibernating", !.stopped_at = "set"]

\* wake_worker, lines 463-465
Woken(r) == [r EXCEPT !.status = "running", !.started_at = "set", !.stopped_at = "null"]

\* a call that changes nothing but reports how it ended
Ends(op, t, outcome) ==
    /\ last' = Event(op, t, outcome)
    /\ UNCHANGED <<instances, containers, audit, credentials, mgr, nextRowId,
                   nextContainerId, serial, workerVars>>

\* a call that commits the new row r for row id and one audit entry
Commits(op, t, id, r, action) ==
    /\ instances' = ReplaceRow(id, r)
    /\ audit' = Append(audit, AuditEntry(action, t, NoContainer, NoSlot))
    /\ last' = Event(op, t, "ok")
    /\ UNCHANGED <<credentials, mgr, nextRowId, nextContainerId,
                   serial, workerVars>>

\* start_worker, lines 291-343
StartWorker(t) ==
    /\ MayCall
    /\ AuditHasRoom
    /\ \E id \in FirstOf(t) :
         IF id = NoRow THEN Ends("start", t, "WorkerNotFoundError")
         ELSE LET r == RowById(id) IN
           IF r.status \in StartNoopStatuses THEN Ends("start", t, "noop")
           ELSE IF r.container_id = NoContainer THEN Ends("start", t, "NullResource")
           ELSE IF ~ContainerFound(r.container_id)
                THEN Ends("start", t, "WorkerNotFoundError")
           ELSE \/ /\ containers' = SetContainerState(r.container_id, "running")
                   /\ Commits("start", t, id, Started(r), "worker_started")
                \/ Ends("start", t, "WorkerManagerError")

\* check_worker_health, lines 529-573; last_health_check counts the checks that
\* wrote it (0: never written)
CheckWorkerHealth(t) ==
    /\ MayCall
    /\ \E id \in FirstOf(t) :
         IF id = NoRow THEN Ends("health", t, "unknown")
         ELSE LET r == RowById(id) IN
           IF r.status # "running" THEN Ends("health", t, "unknown")
           ELSE IF r.container_id = NoContainer THEN Ends("health", t, "NullResource")
           ELSE \/ LET health == IF /\ ContainerFound(r.container_id)
                                    /\ ContainerById(r.container_id).state = "running"
                                 THEN "healthy" ELSE "unhealthy"
                   IN  /\ r.last_health_check < MaxHealthChecks
                       /\ instances' = ReplaceRow(id, [r EXCEPT
                                           !.health_status = health,
                                           !.last_health_check = @ + 1])
                       /\ last' = Event("health", t, health)
                       /\ UNCHANGED <<containers, audit, credentials, mgr, nextRowId,
                                      nextContainerId, serial, workerVars>>
                \/ Ends("health", t, "APIError")

\* mutant: a container that is not found makes stop fail instead of counting as stopped
StopWorker_NotFoundRaises(t) ==
    /\ MayCall
    /\ AuditHasRoom
    /\ \E id \in FirstOf(t) :
         IF id = NoRow THEN Ends("stop", t, "WorkerNotFoundError")
         ELSE LET r == RowById(id) IN
           IF r.status \in StopNoopStatuses THEN Ends("stop", t, "noop")
           ELSE IF r.container_id = NoContainer THEN Ends("stop", t, "NullResource")
           ELSE IF ~ContainerFound(r.container_id)
                THEN Ends("stop", t, "WorkerNotFoundError")
           ELSE \/ /\ containers' = SetContainerState(r.container_id, "exited")
                   /\ Commits("stop", t, id, Stopped(r), "worker_stopped")
                \/ Ends("stop", t, "WorkerManagerError")

\* stop_worker, lines 345-393
StopWorker(t) ==
    /\ MayCall
    /\ AuditHasRoom
    /\ \E id \in FirstOf(t) :
         IF id = NoRow THEN Ends("stop", t, "WorkerNotFoundError")
         ELSE LET r == RowById(id)
                  stopped == Stopped(r)
              IN
           IF r.status \in StopNoopStatuses THEN Ends("stop", t, "noop")
           ELSE IF r.container_id = NoContainer THEN Ends("stop", t, "NullResource")
           ELSE IF ~ContainerFound(r.container_id)
                THEN /\ Commits("stop", t, id, stopped, "worker_stopped")
                     /\ UNCHANGED containers
           ELSE \/ /\ containers' = SetContainerState(r.container_id, "exited")
                   /\ Commits("stop", t, id, stopped, "worker_stopped")
                \/ Ends("stop", t, "WorkerManagerError")

\* hibernate_worker, lines 395-433
HibernateWorker(t) ==
    /\ MayCall
    /\ AuditHasRoom
    /\ \E id \in FirstOf(t) :
         IF id = NoRow THEN Ends("hibernate", t, "WorkerNotFoundError")
         ELSE LET r == RowById(id)
                  hib == Hibernated(r)
              IN
           IF r.container_id = NoContainer THEN Ends("hibernate", t, "NullResource")
           ELSE IF ~ContainerFound(r.container_id)
                THEN /\ Commits("hibernate", t, id, hib, "worker_hibernated")
                     /\ UNCHANGED containers
           ELSE \/ /\ containers' = SetContainerState(r.container_id, "exited")
                   /\ Commits("hibernate", t, id, hib, "worker_hibernated")
                \/ Ends("hibernate", t, "APIError")

\* wake_worker, lines 435-484
WakeWorker(t) ==
    /\ MayCall
    /\ AuditHasRoom
    /\ \E id \in FirstOf(t) :
         IF id = NoRow THEN Ends("wake", t, "WorkerNotFoundError")
         ELSE LET r == RowById(id) IN
           IF r.status \notin WakeStatuses THEN Ends("wake", t, "WorkerManagerError")
           ELSE IF r.container_id = NoContainer THEN Ends("wake", t, "NullResource")
           ELSE IF ~ContainerFound(r.container_id)
                THEN Ends("wake", t, "WorkerNotFoundError")
           ELSE \/ /\ containers' = SetContainerState(r.container_id, "running")
                   /\ Commits("wake", t, id, Woken(r), "worker_woken")
                \/ Ends("wake", t, "WorkerManagerError")

\* destroy_worker with release_redis_db, lines 486-523 and tenant_service.py 696-701
DestroyWorker(t) ==
    /\ MayCall
    /\ \E id \in FirstOf(t) :
         IF id = NoRow THEN Ends("destroy", t, "noop")
         ELSE LET r == RowById(id) IN
           IF r.container_id = NoContainer THEN Ends("destroy", t, "NullResource")
           ELSE \/ /\ containers' = {c \in containers : c.id # r.container_id}
                   /\ instances' = instances \ {r}
                   /\ last' = Event("destroy", t, "ok")
                   /\ UNCHANGED <<audit, credentials, mgr, nextRowId, nextContainerId,
                                  serial, workerVars>>
                \/ /\ ContainerFound(r.container_id)
                   /\ Ends("destroy", t, "APIError")

\* the container is removed outside the orchestrator: what the NotFound handlers
\* ("Container was removed, need to recreate") provide for
ContainerRemoved(t) ==
    /\ \E c \in containers :
         /\ c.name = t
         /\ containers' = containers \ {c}
    /\ last' = Event("removed", t, "ok")
    /\ UNCHANGED <<instances, audit, credentials, mgr, nextRowId, nextContainerId,
                   serial, workerVars>>

----------------------------------------------------------------------------
(***************************************************************************)
(* The request/response queue: trading_queue.py and TradingWorker.         *)
(* Texts are sequences of words, so that the substring test of the         *)
(* classifier is computed, not assumed.                                    *)
(***************************************************************************)
Clients == 1..NumClients
RequestIds == 1..MaxRequests

\* symbols a caller can name; api.Contracts.Futures.MXF/TXF holds the valid ones
Symbols == {<<"MXFR1">>, <<"ZZZ">>, <<"Session", "Down">>}
ValidSymbols == {<<"MXFR1">>}
Products == {"MXF", "QQQ"}
KnownProducts == {"MXF"}

Exc(type, text) == [type |-> type, text |-> text]
NoExc == Exc("none", <<>>)

\* str.lower() on the words the model uses
LowerWord(w) ==
    CASE w = "Session" -> "session"
      [] w = "Down" -> "down"
      [] w = "Contract" -> "contract"
      [] w = "Token" -> "token"
      [] w = "Product" -> "product"
      [] w = "Trade" -> "trade"
      [] OTHER -> w

Lower(text) == [i \in 1..Len(text) |-> LowerWord(text[i])]

\* pattern in error_str: text holds the words of pat next to each other
Contains(text, pat) ==
    \E i \in 1..(Len(text) - Len(pat) + 1) : SubSeq(text, i, i + Len(pat) - 1) = pat

\* _handle_request, lines 744-753
connection_error_patterns ==
    {<<"token", "is", "expired">>, <<"token", "expired">>, <<"status_code':", "401">>,
     <<"statuscode:", "401">>, <<"not", "ready">>, <<"session", "down">>,
     <<"connection", "refused">>, <<"connection", "reset">>}

\* _handle_request, lines 754-757
is_connection_error(text) ==
    \E pat \in connection_error_patterns : Contains(Lower(text), pat)

\* except (TokenError, SystemMaintenance, SjTimeoutError), line 730
ConnectionErrorTypes == {"TokenError", "SystemMaintenance", "SjTimeoutError"}

\* except (TargetContractNotExistError, AccountNotSignError, AccountNotProvideError)
OrderHandlerCaught ==
    {"TargetContractNotExistError", "AccountNotSignError", "AccountNotProvideError"}

\* what a call into the brokerage SDK can raise
SdkErrors ==
    {Exc("TokenError", <<"Token", "is", "expired">>),
     Exc("SystemMaintenance", <<"system", "maintenance">>),
     Exc("SjTimeoutError", <<"timeout">>),
     Exc("Exception", <<"Session", "down">>),
     Exc("Exception", <<"internal", "error">>),
     Exc("AccountNotSignError", <<"account", "not", "signed">>),
     Exc("AccountNotProvideError", <<"account", "not", "provided">>),
     Exc("TargetContractNotExistError", <<"target", "contract", "not", "exist">>)}

\* what api.login can raise on the last attempt of _get_api_client
LoginErrors == {e \in SdkErrors : e.type \in ConnectionErrorTypes \cup {"Exception"}}

\* trading.py get_contract_from_symbol: ValueError(f"Contract {symbol} not found")
ContractNotFound(symbol) == Exc("ValueError", <<"Contract">> \o symbol \o <<"not", "found">>)

NoParams == [symbol |-> <<>>, product |-> "", trade_key |-> 0]

\* the requests a client can submit: operation and params
Submissions ==
    {[operation |-> "ping", params |-> NoParams],
     [operation |-> "get_positions", params |-> NoParams]}
    \cup {[operation |-> op, params |-> [NoParams EXCEPT !.symbol = sym]] :
            op \in {"get_symbol_info", "place_entry_order", "place_exit_order"},
            sym \in Symbols}
    \cup {[operation |-> "get_product_contracts", params |-> [NoParams EXCEPT !.product = p]] :
            p \in Products}
    \cup {[operation |-> "check_order_status", params |-> [NoParams EXCEPT !.trade_key = k]] :
            k \in 1..MaxRequests}

\* TradingRequest
TradingRequest(id, op, sim, params) ==
    [request_id |-> id, operation |-> op, simulation |-> sim, params |-> params]

NoRequest == TradingRequest(NoRequestId, "none", TRUE, NoParams)

NoError == [prefix |-> "", text |-> <<>>]

\* TradingResponse
TradingResponse(id, success, data, error) ==
    [request_id |-> id, success |-> success, data |-> data, error |-> error]

NoResponse == TradingResponse(NoRequestId, FALSE, "none", NoError)

\* what the body of an operation comes to: it returns a response, or it raises
Succeeds(data, stores) ==
    [fault |-> NoExc, raised |-> FALSE, success |-> TRUE, text |-> <<>>, data |-> data,
     stores |-> stores]

Fails(e) ==
    [fault |-> e, raised |-> FALSE, success |-> FALSE, text |-> e.text, data |-> "none",
     stores |-> FALSE]

Propagates(e) ==
    [fault |-> e, raised |-> TRUE, success |-> FALSE, text |-> e.text, data |-> "none",
     stores |-> FALSE]

\* _handle_entry_order, lines 775-831
handle_entry_order(req) ==
    IF req.params.symbol \notin ValidSymbols
    THEN {Propagates(ContractNotFound(req.params.symbol))}
    ELSE {Succeeds("order", TRUE)}
         \cup {IF e.type \in OrderHandlerCaught THEN Fails(e) ELSE Propagates(e) :
                 e \in SdkErrors}

\* _handle_exit_order, lines 833-898
handle_exit_order(req) ==
    IF req.params.symbol \notin ValidSymbols
    THEN {Propagates(ContractNotFound(req.params.symbol))}
    ELSE {Succeeds("order", TRUE), Succeeds("no_position", FALSE)}
         \cup {IF e.type \in OrderHandlerCaught THEN Fails(e) ELSE Propagates(e) :
                 e \in SdkErrors}

\* _handle_check_order_status, lines 900-963: every exception of update_status is
\* caught in the handler and answered with str(e)
handle_check_order_status(req, trades) ==
    IF \A tr \in trades : tr.key # req.params.trade_key
    THEN {Fails(Exc("TradeNotFound", <<"Trade", "not", "found">>))}
    ELSE {Succeeds("status", FALSE)} \cup {Fails(e) : e \in SdkErrors}

\* the try block of _handle_request after _get_api_client, lines 584-728
OperationResults(req, trades) ==
    CASE req.operation = "ping" -> {Succeeds("healthy", FALSE)}
      [] req.operation = "get_symbol_info" ->
            IF req.params.symbol \in ValidSymbols
            THEN {Succeeds("symbol_info", FALSE)}
            ELSE {Propagates(ContractNotFound(req.params.symbol))}
      [] req.operation = "get_positions" ->
            {Succeeds("positions", FALSE)} \cup {Propagates(e) : e \in SdkErrors}
      [] req.operation = "get_product_contracts" ->
            IF req.params.product \in KnownProducts
            THEN {Succeeds("contracts", FALSE)}
            ELSE {Fails(Exc("ProductNotFound",
                            <<"Product", req.params.product, "not", "found">>))}
      [] req.operation = "place_entry_order" -> handle_entry_order(req)
      [] req.operation = "place_exit_order" -> handle_exit_order(req)
      [] req.operation = "check_order_status" -> handle_check_order_status(req, trades)
      [] OTHER -> {Fails(Exc("UnknownOperation", <<"Unknown", "operation">>))}

\* trading_worker.py line 73
MAX_RECONNECT_ATTEMPTS == 10

\* how many login attempts in a row the brokerage fails, as far as the model tries
FailedLogins == {0, 1, MAX_RECONNECT_ATTEMPTS - 1, MAX_RECONNECT_ATTEMPTS}

\* mutant: after a call that used up its attempts, the next call for the mode gives
\* up at once
get_api_client_GivesUp(stored, sim, fresh) ==
    IF stored[sim] # NoSession
    THEN {[ok |-> TRUE, session |-> stored[sim], new |-> FALSE, exc |-> NoExc,
           attempts |-> 0]}
    ELSE IF exhausted[sim] > 0
    THEN {[ok |-> FALSE, session |-> NoSession, new |-> FALSE, exc |-> e,
           attempts |-> 0] : e \in LoginErrors}
    ELSE {[ok |-> TRUE, session |-> fresh, new |-> TRUE, exc |-> NoExc,
           attempts |-> f + 1] :
            f \in {g \in FailedLogins : g < MAX_RECONNECT_ATTEMPTS /\ fresh <= MaxSessions}}
         \cup {[ok |-> FALSE, session |-> NoSession, new |-> FALSE, exc |-> e,
                attempts |-> MAX_RECONNECT_ATTEMPTS] :
                 e \in LoginErrors}

\* _get_api_client, lines 199-256: the stored session, or a login that ends with a
\* new session stored or with the exception of the last attempt
get_api_client(stored, sim, fresh) ==
    IF stored[sim] # NoSession
    THEN {[ok |-> TRUE, session |-> stored[sim], new |-> FALSE, exc |-> NoExc,
           attempts |-> 0]}
    ELSE {[ok |-> TRUE, session |-> fresh, new |-> TRUE, exc |-> NoExc,
           attempts |-> f + 1] :
            f \in {g \in FailedLogins : g < MAX_RECONNECT_ATTEMPTS /\ fresh <= MaxSessions}}
         \cup {[ok |-> FALSE, session |-> NoSession, new |-> FALSE, exc |-> e,
                attempts |-> MAX_RECONNECT_ATTEMPTS] :
                 e \in LoginErrors}

\* mutant: the stored reference is not cleared
invalidate_connection_Keep(stored, flags, sim) == stored

\* _invalidate_connection, lines 288-350, as the main loop sees it: the stored
\* reference is dropped unless an invalidation is under way or nothing is stored
invalidate_connection(stored, flags, sim) ==
    IF flags[sim] THEN stored
    ELSE IF stored[sim] = NoSession THEN stored
    ELSE [stored EXCEPT ![sim] = NoSession]

\* the two except clauses of _handle_request, lines 730-766: is e a connection error?
ClassifiedConnectionError(e) ==
    e.type \in ConnectionErrorTypes \/ is_connection_error(e.text)

\* the error text of the failure response, lines 735-773
ErrorOf(h) ==
    IF ~h.raised THEN [prefix |-> "", text |-> h.text]
    ELSE IF h.fault.type \in ConnectionErrorTypes
    THEN [prefix |-> "Connection error (type)", text |-> h.text]
    ELSE IF is_connection_error(h.text)
    THEN [prefix |-> "Connection error", text |-> h.text]
    ELSE [prefix |-> "", text |-> h.text]

Count(seq, x) == Cardinality({i \in 1..Len(seq) : seq[i] = x})

----------------------------------------------------------------------------
\* TradingQueueClient.submit_request, lines 129-142: a fresh id, then rpush
SubmitRequest(c, sub, sim) ==
    /\ clients[c].pc = "idle"
    /\ nextRequestId <= MaxRequests
    /\ requestQueue' = Append(requestQueue,
                              TradingRequest(nextRequestId, sub.operation, sim, sub.params))
    /\ pushOrder' = Append(pushOrder, nextRequestId)
    /\ nextRequestId' = nextRequestId + 1
    /\ clients' = [clients EXCEPT ![c] =
                      [pc |-> "waiting", request_id |-> nextRequestId,
                       result |-> "none", response |-> NoResponse]]
    /\ UNCHANGED <<responseKeys, wpc, request, response, api_clients, invalidating,
                   pending_trades, nextSession, nextOrder, fault, used, faulted, handling,
                   popOrder, respOrder, delivered, orchVars>>
    /\ UNCHANGED <<orderVars, connVars, tenantVars>>
    /\ UNCHANGED exhausted
    /\ UNCHANGED <<ttl, running, signalled, attempts>>

\* submit_request, lines 145-155: blpop on the response key returned an element
ReceiveResponse(c) ==
    /\ clients[c].pc = "waiting"
    /\ responseKeys[clients[c].request_id] # <<>>
    /\ LET id == clients[c].request_id IN
         /\ clients' = [clients EXCEPT ![c].pc = "idle", ![c].result = "response",
                                       ![c].response = Head(responseKeys[id])]
         /\ responseKeys' = [responseKeys EXCEPT ![id] = Tail(@)]
         /\ delivered' = [delivered EXCEPT ![id] = @ + 1]
         \* redis deletes a list key, and its expiry, when its last element is popped
         /\ ttl' = [ttl EXCEPT ![id] = @ /\ Tail(responseKeys[id]) # <<>>]
    /\ UNCHANGED <<requestQueue, nextRequestId, wpc, request, response, api_clients,
                   invalidating, pending_trades, nextSession, nextOrder, fault, used,
                   faulted, handling, pushOrder, popOrder, respOrder, orchVars>>
    /\ UNCHANGED <<orderVars, connVars, tenantVars>>
    /\ UNCHANGED exhausted
    /\ UNCHANGED <<running, signalled, attempts>>

\* submit_request, lines 157-159: rpush raised redis.ConnectionError, which is
\* re-raised as ConnectionError; nothing was pushed
SubmitFails(c) ==
    /\ clients[c].pc = "idle"
    /\ nextRequestId <= MaxRequests
    /\ clients' = [clients EXCEPT ![c] =
                      [pc |-> "idle", request_id |-> NoRequestId,
                       result |-> "ConnectionError", response |-> NoResponse]]
    /\ UNCHANGED <<requestQueue, responseKeys, nextRequestId, wpc, request, response,
                   api_clients, invalidating, pending_trades, nextSession, nextOrder,
                   fault, used, faulted, handling, pushOrder, popOrder, respOrder,
                   delivered, orchVars>>
    /\ UNCHANGED <<orderVars, connVars, tenantVars>>
    /\ UNCHANGED exhausted
    /\ UNCHANGED <<ttl, running, signalled, attempts>>

\* submit_request, lines 157-159: blpop raised redis.ConnectionError, which is
\* re-raised as ConnectionError
WaitFails(c) ==
    /\ clients[c].pc = "waiting"
    /\ clients' = [clients EXCEPT ![c].pc = "idle", ![c].result = "ConnectionError"]
    /\ UNCHANGED <<requestQueue, responseKeys, nextRequestId, wpc, request, response,
                   api_clients, invalidating, pending_trades, nextSession, nextOrder,
                   fault, used, faulted, handling, pushOrder, popOrder, respOrder,
                   delivered, orchVars>>
    /\ UNCHANGED <<orderVars, connVars, tenantVars>>
    /\ UNCHANGED exhausted
    /\ UNCHANGED <<ttl, running, signalled, attempts>>

\* mutant: a client that times out takes its request back out of the queue
TimeoutRequest_Retracts(c) ==
    /\ clients[c].pc = "waiting"
    /\ responseKeys[clients[c].request_id] = <<>>
    /\ clients' = [clients EXCEPT ![c].pc = "idle", ![c].result = "TimeoutError"]
    /\ requestQueue' = SelectSeq(requestQueue,
                                 LAMBDA r : r.request_id # clients[c].request_id)
    /\ UNCHANGED <<responseKeys, nextRequestId, wpc, request, response,
                   api_clients, invalidating, pending_trades, nextSession, nextOrder,
                   fault, used, faulted, handling, pushOrder, popOrder, respOrder,
                   delivered, orchVars>>
    /\ UNCHANGED <<orderVars, connVars, tenantVars>>
    /\ UNCHANGED exhausted
    /\ UNCHANGED <<ttl, running, signalled, attempts>>

\* mutant: a client that times out pushes its request again
TimeoutRequest_Retries(c) ==
    /\ clients[c].pc = "waiting"
    /\ responseKeys[clients[c].request_id] = <<>>
    /\ clients' = [clients EXCEPT ![c].pc = "idle", ![c].result = "TimeoutError"]
    /\ requestQueue' = Append(requestQueue,
                              TradingRequest(clients[c].request_id, "ping", TRUE, NoParams))
    /\ pushOrder' = Append(pushOrder, clients[c].request_id)
    /\ UNCHANGED <<responseKeys, nextRequestId, wpc, request, response,
                   api_clients, invalidating, pending_trades, nextSession, nextOrder,
                   fault, used, faulted, handling, popOrder, respOrder,
                   delivered, orchVars>>
    /\ UNCHANGED <<orderVars, connVars, tenantVars>>
    /\ UNCHANGED exhausted
    /\ UNCHANGED <<ttl, running, signalled, attempts>>

\* submit_request, lines 147-149: blpop returned None, TimeoutError is raised
TimeoutRequest(c) ==
    /\ clients[c].pc = "waiting"
    /\ responseKeys[clients[c].request_id] = <<>>
    /\ clients' = [clients EXCEPT ![c].pc = "idle", ![c].result = "TimeoutError"]
    /\ UNCHANGED <<requestQueue, responseKeys, nextRequestId, wpc, request, response,
                   api_clients, invalidating, pending_trades, nextSession, nextOrder,
                   fault, used, faulted, handling, pushOrder, popOrder, respOrder,
                   delivered, orchVars>>
    /\ UNCHANGED <<orderVars, connVars, tenantVars>>
    /\ UNCHANGED exhausted
    /\ UNCHANGED <<ttl, running, signalled, attempts>>

\* TradingWorker.run, lines 973-985: the initial simulation connection attempt
WorkerRun ==
    /\ wpc = "new"
    /\ \E c \in get_api_client(api_clients, TRUE, nextSession) :
         /\ api_clients' = IF c.ok THEN [api_clients EXCEPT ![TRUE] = c.session]
                           ELSE api_clients
         /\ nextSession' = IF c.new THEN nextSession + 1 ELSE nextSession
         /\ exhausted' = [exhausted EXCEPT
                             ![TRUE] = IF ~c.ok /\ @ < MaxExhausted THEN @ + 1 ELSE @]
    /\ running' = TRUE
    /\ wpc' = "loop"
    /\ UNCHANGED <<requestQueue, responseKeys, clients, nextRequestId, request, response,
                   invalidating, pending_trades, nextOrder, fault, used, faulted,
                   handling, pushOrder, popOrder, respOrder, delivered, orchVars>>
    /\ UNCHANGED <<orderVars, connVars, tenantVars>>
    /\ UNCHANGED <<ttl, signalled, attempts>>

\* _signal_handler, lines 158-161, for a signal delivered while run() is executing
Signal ==
    /\ wpc \notin {"new", "stopped"}
    /\ running' = FALSE
    /\ signalled' = TRUE
    /\ UNCHANGED <<requestQueue, responseKeys, clients, nextRequestId, wpc, request,
                   response, api_clients, invalidating, pending_trades, nextSession,
                   nextOrder, fault, used, faulted, handling, pushOrder, popOrder,
                   respOrder, delivered, ttl, attempts, orchVars>>
    /\ UNCHANGED <<orderVars, connVars, tenantVars>>
    /\ UNCHANGED exhausted

\* _signal_handler, lines 158-161, for a signal delivered after the constructor has
\* registered the handler (lines 126-127) and before run() reaches line 973
SignalBeforeRun ==
    /\ wpc = "new"
    /\ running' = FALSE
    /\ signalled' = TRUE
    /\ UNCHANGED <<requestQueue, responseKeys, clients, nextRequestId, wpc, request,
                   response, api_clients, invalidating, pending_trades, nextSession,
                   nextOrder, fault, used, faulted, handling, pushOrder, popOrder,
                   respOrder, delivered, ttl, attempts, orchVars>>
    /\ UNCHANGED <<orderVars, connVars, tenantVars>>
    /\ UNCHANGED exhausted

\* mutant: the loop goes on although running is false
LoopCheck_IgnoresRunning ==
    /\ wpc = "loop"
    /\ wpc' = "poll"
    /\ UNCHANGED <<requestQueue, responseKeys, clients, nextRequestId, request,
                   response, api_clients, invalidating, pending_trades, nextSession,
                   nextOrder, fault, used, faulted, handling, pushOrder, popOrder,
                   respOrder, delivered, orchVars>>
    /\ UNCHANGED <<orderVars, connVars, tenantVars>>
    /\ UNCHANGED exhausted
    /\ UNCHANGED <<ttl, running, signalled, attempts>>

\* run, line 987: the loop condition holds and blpop is entered
LoopCheck ==
    /\ wpc = "loop"
    /\ running
    /\ wpc' = "poll"
    /\ UNCHANGED <<requestQueue, responseKeys, clients, nextRequestId, request,
                   response, api_clients, invalidating, pending_trades, nextSession,
                   nextOrder, fault, used, faulted, handling, pushOrder, popOrder,
                   respOrder, delivered, orchVars>>
    /\ UNCHANGED <<orderVars, connVars, tenantVars>>
    /\ UNCHANGED exhausted
    /\ UNCHANGED <<ttl, running, signalled, attempts>>

\* run, lines 1033-1039: _invalidate_connection for every mode that holds a session
Cleanup(stored) ==
    invalidate_connection(invalidate_connection(stored, invalidating, TRUE),
                          invalidating, FALSE)

\* run, lines 987 and 1033-1041: the loop condition fails, cleanup, run() returns
Shutdown ==
    /\ wpc = "loop"
    /\ ~running
    /\ api_clients' = Cleanup(api_clients)
    /\ wpc' = "stopped"
    /\ UNCHANGED <<requestQueue, responseKeys, clients, nextRequestId, request,
                   response, invalidating, pending_trades, nextSession,
                   nextOrder, fault, used, faulted, handling, pushOrder, popOrder,
                   respOrder, delivered, orchVars>>
    /\ UNCHANGED <<orderVars, connVars, tenantVars>>
    /\ UNCHANGED exhausted
    /\ UNCHANGED <<ttl, running, signalled, attempts>>

\* run, lines 992-1001: blpop timed out; when the health-check interval has passed,
\* _maybe_refresh_connection (lines 387-403) invalidates each session whose probe fails
PollTimeout ==
    /\ wpc = "poll"
    /\ requestQueue = <<>>
    /\ \E stale \in SUBSET {sim \in BOOLEAN : api_clients[sim] # NoSession} :
         api_clients' = [sim \in BOOLEAN |->
                           IF sim \in stale
                           THEN invalidate_connection(api_clients, invalidating, sim)[sim]
                           ELSE api_clients[sim]]
    /\ wpc' = "loop"
    /\ UNCHANGED <<requestQueue, responseKeys, clients, nextRequestId, request,
                   response, invalidating, pending_trades, nextSession,
                   nextOrder, fault, used, faulted, handling, pushOrder, popOrder,
                   respOrder, delivered, orchVars>>
    /\ UNCHANGED <<orderVars, connVars, tenantVars>>
    /\ UNCHANGED exhausted
    /\ UNCHANGED <<ttl, running, signalled, attempts>>

\* run, lines 990 and 1025-1027: blpop raised redis.ConnectionError
PollFails ==
    /\ wpc = "poll"
    /\ wpc' = "loop"
    /\ UNCHANGED <<requestQueue, responseKeys, clients, nextRequestId, request,
                   response, api_clients, invalidating, pending_trades, nextSession,
                   nextOrder, fault, used, faulted, handling, pushOrder, popOrder,
                   respOrder, delivered, orchVars>>
    /\ UNCHANGED <<orderVars, connVars, tenantVars>>
    /\ UNCHANGED exhausted
    /\ UNCHANGED <<ttl, running, signalled, attempts>>

\* mutant: the head of the queue is read but not removed
PopRequest_Peek ==
    /\ wpc = "poll"
    /\ requestQueue # <<>>
    /\ request' = Head(requestQueue)
    /\ popOrder' = Append(popOrder, Head(requestQueue).request_id)
    /\ handling' = handling \cup {Head(requestQueue).request_id}
    /\ wpc' = "handle"
    /\ UNCHANGED <<requestQueue, responseKeys, clients, nextRequestId, response,
                   api_clients, invalidating, pending_trades, nextSession, nextOrder,
                   fault, used, faulted, pushOrder, respOrder, delivered, orchVars>>
    /\ UNCHANGED <<orderVars, connVars, tenantVars>>
    /\ UNCHANGED exhausted
    /\ UNCHANGED <<ttl, running, signalled, attempts>>

\* mutant: the pop takes the newest request (rpop) instead of the oldest
PopRequest_Lifo ==
    /\ wpc = "poll"
    /\ requestQueue # <<>>
    /\ request' = requestQueue[Len(requestQueue)]
    /\ requestQueue' = SubSeq(requestQueue, 1, Len(requestQueue) - 1)
    /\ popOrder' = Append(popOrder, requestQueue[Len(requestQueue)].request_id)
    /\ handling' = handling \cup {requestQueue[Len(requestQueue)].request_id}
    /\ wpc' = "handle"
    /\ UNCHANGED <<responseKeys, clients, nextRequestId, response, api_clients,
                   invalidating, pending_trades, nextSession, nextOrder, fault, used,
                   faulted, pushOrder, respOrder, delivered, orchVars>>
    /\ UNCHANGED <<orderVars, connVars, tenantVars>>
    /\ UNCHANGED exhausted
    /\ UNCHANGED <<ttl, running, signalled, attempts>>

\* mutant: the loop pops the next request while one is still being handled
PopRequest_WhileHandling ==
    /\ wpc \in {"poll", "handle"}
    /\ requestQueue # <<>>
    /\ request' = Head(requestQueue)
    /\ requestQueue' = Tail(requestQueue)
    /\ popOrder' = Append(popOrder, Head(requestQueue).request_id)
    /\ handling' = handling \cup {Head(requestQueue).request_id}
    /\ wpc' = "handle"
    /\ UNCHANGED <<responseKeys, clients, nextRequestId, response, api_clients,
                   invalidating, pending_trades, nextSession, nextOrder, fault, used,
                   faulted, pushOrder, respOrder, delivered, orchVars>>
    /\ UNCHANGED <<orderVars, connVars, tenantVars>>
    /\ UNCHANGED exhausted
    /\ UNCHANGED <<ttl, running, signalled, attempts>>

\* run, lines 990 and 1003-1004: blpop takes the head of the request queue
PopRequest ==
    /\ wpc = "poll"
    /\ requestQueue # <<>>
    /\ request' = Head(requestQueue)
    /\ requestQueue' = Tail(requestQueue)
    /\ popOrder' = Append(popOrder, Head(requestQueue).request_id)
    /\ handling' = handling \cup {Head(requestQueue).request_id}
    /\ wpc' = "handle"
    /\ UNCHANGED <<responseKeys, clients, nextRequestId, response, api_clients,
                   invalidating, pending_trades, nextSession, nextOrder, fault, used,
                   faulted, pushOrder, respOrder, delivered, orchVars>>
    /\ UNCHANGED <<orderVars, connVars, tenantVars>>
    /\ UNCHANGED exhausted
    /\ UNCHANGED <<ttl, running, signalled, attempts>>

\* _handle_request, lines 569-773
HandleRequest ==
    /\ wpc = "handle"
    /\ \E c \in get_api_client(api_clients, request.simulation, nextSession) :
       \E h \in (IF c.ok THEN OperationResults(request, pending_trades)
                 ELSE {Propagates(c.exc)}) :
         LET sim == request.simulation
             connected == IF c.ok THEN [api_clients EXCEPT ![sim] = c.session]
                          ELSE api_clients
             isConn == h.raised /\ ClassifiedConnectionError(h.fault)
         IN  /\ api_clients' = IF isConn
                               THEN invalidate_connection(connected, invalidating, sim)
                               ELSE connected
             /\ nextSession' = IF c.new THEN nextSession + 1 ELSE nextSession
             /\ response' = TradingResponse(request.request_id, h.success, h.data,
                                            IF h.success THEN NoError ELSE ErrorOf(h))
             /\ pending_trades' = IF h.stores
                                  THEN pending_trades \cup
                                       {[key |-> nextOrder, session |-> c.session,
                                         simulation |-> sim]}
                                  ELSE pending_trades
             /\ nextOrder' = IF h.stores THEN nextOrder + 1 ELSE nextOrder
             /\ fault' = h.fault
             /\ used' = c.session
             /\ attempts' = c.attempts
             /\ exhausted' = [exhausted EXCEPT
                                 ![sim] = IF ~c.ok /\ @ < MaxExhausted THEN @ + 1 ELSE @]
             /\ faulted' = IF isConn /\ c.ok
                            THEN faulted \cup {[session |-> c.session, simulation |-> sim]}
                            ELSE faulted
    /\ wpc' = "respond"
    /\ UNCHANGED <<requestQueue, responseKeys, clients, nextRequestId, request,
                   invalidating, handling, pushOrder, popOrder, respOrder, delivered,
                   orchVars>>
    /\ UNCHANGED <<orderVars, connVars, tenantVars>>
    /\ UNCHANGED <<ttl, running, signalled>>

\* run, lines 1015-1018: rpush on the response key of the request, then expire
SendResponse ==
    /\ wpc = "respond"
    /\ responseKeys' = [responseKeys EXCEPT ![request.request_id] = Append(@, response)]
    /\ ttl' = [ttl EXCEPT ![request.request_id] = TRUE]
    /\ respOrder' = Append(respOrder, request.request_id)
    /\ handling' = handling \ {request.request_id}
    /\ request' = NoRequest
    /\ response' = NoResponse
    /\ attempts' = 0
    /\ fault' = NoExc
    /\ used' = NoSession
    /\ wpc' = "loop"
    /\ UNCHANGED <<requestQueue, clients, nextRequestId, api_clients, invalidating,
                   pending_trades, nextSession, nextOrder, faulted,
                   pushOrder, popOrder, delivered, running, signalled, orchVars>>
    /\ UNCHANGED <<orderVars, connVars, tenantVars>>
    /\ UNCHANGED exhausted

\* run, lines 1017-1018 and 1025-1027: rpush stored the response, then expire raised
\* redis.ConnectionError
SendResponseExpireFails ==
    /\ wpc = "respond"
    /\ responseKeys' = [responseKeys EXCEPT ![request.request_id] = Append(@, response)]
    /\ respOrder' = Append(respOrder, request.request_id)
    /\ handling' = handling \ {request.request_id}
    /\ request' = NoRequest
    /\ response' = NoResponse
    /\ attempts' = 0
    /\ fault' = NoExc
    /\ used' = NoSession
    /\ wpc' = "loop"
    /\ UNCHANGED <<requestQueue, clients, nextRequestId, api_clients, invalidating,
                   pending_trades, nextSession, nextOrder, faulted,
                   pushOrder, popOrder, delivered, ttl, running, signalled, orchVars>>
    /\ UNCHANGED <<orderVars, connVars, tenantVars>>
    /\ UNCHANGED exhausted

\* run, lines 1025-1027: rpush raised redis.ConnectionError; the response is dropped
SendResponseFails ==
    /\ wpc = "respond"
    /\ handling' = handling \ {request.request_id}
    /\ request' = NoRequest
    /\ response' = NoResponse
    /\ attempts' = 0
    /\ fault' = NoExc
    /\ used' = NoSession
    /\ wpc' = "loop"
    /\ UNCHANGED <<requestQueue, responseKeys, clients, nextRequestId, api_clients,
                   invalidating, pending_trades, nextSession, nextOrder,
                   faulted, pushOrder, popOrder, respOrder, delivered, ttl, running,
                   signalled, orchVars>>
    /\ UNCHANGED <<orderVars, connVars, tenantVars>>
    /\ UNCHANGED exhausted

\* redis removes a response key whose expiry has passed
ExpireKey(id) ==
    /\ ttl[id]
    /\ responseKeys' = [responseKeys EXCEPT ![id] = <<>>]
    /\ ttl' = [ttl EXCEPT ![id] = FALSE]
    /\ UNCHANGED <<requestQueue, clients, nextRequestId, wpc, request, response,
                   api_clients, invalidating, pending_trades, nextSession, nextOrder,
                   fault, used, faulted, handling, pushOrder, popOrder, respOrder,
                   delivered, running, signalled, attempts, orchVars>>
    /\ UNCHANGED <<orderVars, connVars, tenantVars>>
    /\ UNCHANGED exhausted

----------------------------------------------------------------------------
(***************************************************************************)
(* The order handlers of the worker, with quantities and positions.        *)
(***************************************************************************)

\* api.Contracts.Futures: symbol and code of the contracts the brokerage lists
Contracts == {[symbol |-> <<"MXFR1">>, code |-> "MXFK6"]}
ContractCodes == {"MXFK6", "TXFK6"}

\* the action strings of the worker's protocol, as create_order sends them
\* (main.py 500-528: "Buy" or "Sell")
Actions == {"Buy", "Sell"}

\* position.side as the SDK reports it; "None" stands for a side that is neither
Sides == {"Buy", "Sell", "None"}

\* api.list_positions: up to MaxPositions positions
PositionLists ==
    UNION {[1..n -> [code : ContractCodes, side : Sides, quantity : {0, 1, 3}]] :
             n \in 0..MaxPositions}

\* the requests and what the SDK answers: the positions, and the exception
\* place_order raises (NoExc: none)
OrderInputs ==
    [operation : {"place_entry_order", "place_exit_order"},
     symbol : Symbols,
     quantity : 1..MaxQuantity,
     action : Actions,
     positions : PositionLists,
     sdk : {NoExc} \cup SdkErrors]

NoOrderInput ==
    [operation |-> "none", symbol |-> <<>>, quantity |-> 0, action |-> "",
     positions |-> <<>>, sdk |-> NoExc]

NoOrderData ==
    [order_id |-> "none", action |-> "", quantity |-> 0, original_quantity |-> 0,
     code |-> "", message |-> ""]

\* placed: api.place_order returned; action and quantity: of the api.Order;
\* stores: an entry was added to pending_trades; raised: the handler let an
\* exception go to _handle_request; success and data: of the TradingResponse
NoOrderOutput ==
    [done |-> FALSE, placed |-> FALSE, action |-> "", quantity |-> 0, stores |-> FALSE,
     raised |-> FALSE, success |-> FALSE, data |-> NoOrderData]

\* trading.py get_contract_from_symbol, lines 87-94: the contracts with the symbol
ContractsOf(symbol) == {c \in Contracts : c.symbol = symbol}

\* trading.py get_current_position, lines 107-120: the first position with the
\* contract's code gives the signed quantity, none gives None; a side that is
\* neither Buy nor Sell raises ValueError
get_current_position(positions, code) ==
    LET hits == {i \in 1..Len(positions) : positions[i].code = code} IN
    IF hits = {} THEN [raised |-> FALSE, none |-> TRUE, value |-> 0]
    ELSE LET pos == positions[SetMin(hits)] IN
         IF pos.side = "Buy"
         THEN [raised |-> FALSE, none |-> FALSE, value |-> pos.quantity]
         ELSE IF pos.side = "Sell"
         THEN [raised |-> FALSE, none |-> FALSE, value |-> 0 - pos.quantity]
         ELSE [raised |-> TRUE, none |-> FALSE, value |-> 0]

\* `get_current_position(api, contract) or 0`
PositionOrZero(cp) == IF cp.none \/ cp.value = 0 THEN 0 ELSE cp.value

\* mutant: the position is added with its sign
entry_quantity_Signed(action, quantity, current_position) ==
    IF action = "Buy" /\ current_position < 0 THEN quantity + current_position
    ELSE IF action = "Sell" /\ current_position > 0 THEN quantity + current_position
    ELSE quantity

\* _handle_entry_order, lines 787-792: the quantity of the order
entry_quantity(action, quantity, current_position) ==
    IF action = "Buy" /\ current_position < 0 THEN quantity - current_position
    ELSE IF action = "Sell" /\ current_position > 0 THEN quantity + current_position
    ELSE quantity

\* the handler let the exception go, or answered it with success=false
OrderFailed(e) ==
    [NoOrderOutput EXCEPT !.done = TRUE, !.raised = e.type \notin OrderHandlerCaught]

\* _handle_entry_order, lines 775-831
entry_order(in) ==
    IF ContractsOf(in.symbol) = {} THEN OrderFailed(ContractNotFound(in.symbol))
    ELSE LET contract == CHOOSE c \in ContractsOf(in.symbol) : TRUE
             cp == get_current_position(in.positions, contract.code)
             action == IF in.action = "Buy" THEN "Buy" ELSE "Sell"
             quantity == entry_quantity(action, in.quantity, PositionOrZero(cp))
         IN  IF cp.raised THEN OrderFailed(Exc("ValueError", <<"invalid", "side">>))
             ELSE IF in.sdk # NoExc THEN OrderFailed(in.sdk)
             ELSE [done |-> TRUE, placed |-> TRUE, action |-> action,
                   quantity |-> quantity, stores |-> TRUE, raised |-> FALSE,
                   success |-> TRUE,
                   data |-> [order_id |-> "id", action |-> in.action,
                             quantity |-> quantity, original_quantity |-> in.quantity,
                             code |-> contract.code, message |-> ""]]

\* mutant: any position of the contract is closed, whatever direction was stated
exit_plan_AnyPosition(direction, current_position) ==
    IF current_position > 0
    THEN [place |-> TRUE, action |-> "Sell", quantity |-> current_position]
    ELSE IF current_position < 0
    THEN [place |-> TRUE, action |-> "Buy", quantity |-> 0 - current_position]
    ELSE [place |-> FALSE, action |-> "", quantity |-> 0]

\* _handle_exit_order, lines 849-860: the action and quantity of the exit, if any
exit_plan(direction, current_position) ==
    IF direction = "Buy" /\ current_position > 0
    THEN [place |-> TRUE, action |-> "Sell", quantity |-> current_position]
    ELSE IF direction = "Sell" /\ current_position < 0
    THEN [place |-> TRUE, action |-> "Buy", quantity |-> 0 - current_position]
    ELSE [place |-> FALSE, action |-> "", quantity |-> 0]

\* _handle_exit_order, lines 833-898; the request's action is position_direction
exit_order(in) ==
    IF ContractsOf(in.symbol) = {} THEN OrderFailed(ContractNotFound(in.symbol))
    ELSE LET contract == CHOOSE c \in ContractsOf(in.symbol) : TRUE
             cp == get_current_position(in.positions, contract.code)
             direction == IF in.action = "Buy" THEN "Buy" ELSE "Sell"
             plan == exit_plan(direction, PositionOrZero(cp))
         IN  IF cp.raised THEN OrderFailed(Exc("ValueError", <<"invalid", "side">>))
             ELSE IF ~plan.place
             THEN [done |-> TRUE, placed |-> FALSE, action |-> "", quantity |-> 0,
                   stores |-> FALSE, raised |-> FALSE, success |-> TRUE,
                   data |-> [NoOrderData EXCEPT !.message = "No position to exit"]]
             ELSE IF in.sdk # NoExc THEN OrderFailed(in.sdk)
             ELSE [done |-> TRUE, placed |-> TRUE, action |-> plan.action,
                   quantity |-> plan.quantity, stores |-> TRUE, raised |-> FALSE,
                   success |-> TRUE,
                   data |-> [order_id |-> "id", action |-> plan.action,
                             quantity |-> plan.quantity, original_quantity |-> 0,
                             code |-> contract.code, message |-> ""]]

\* _handle_request, line 715: place_entry_order
PlaceEntryOrder ==
    /\ order_in.operation = "place_entry_order"
    /\ ~order_out.done
    /\ order_out' = entry_order(order_in)
    /\ UNCHANGED <<order_in, gateway_in, orchVars, connVars, tenantVars>>
    /\ UNCHANGED <<requestQueue, responseKeys, clients, nextRequestId, wpc, request,
                   response, api_clients, invalidating, pending_trades, nextSession,
                   nextOrder, fault, used, faulted, handling, pushOrder, popOrder,
                   respOrder, delivered, ttl, running, signalled, attempts, exhausted>>

\* _handle_request, line 718: place_exit_order
PlaceExitOrder ==
    /\ order_in.operation = "place_exit_order"
    /\ ~order_out.done
    /\ order_out' = exit_order(order_in)
    /\ UNCHANGED <<order_in, gateway_in, orchVars, connVars, tenantVars>>
    /\ UNCHANGED <<requestQueue, responseKeys, clients, nextRequestId, wpc, request,
                   response, api_clients, invalidating, pending_trades, nextSession,
                   nextOrder, fault, used, faulted, handling, pushOrder, popOrder,
                   respOrder, delivered, ttl, running, signalled, attempts, exhausted>>

\* main.py line 25, ACCEPT_ACTIONS; gateway/main.py line 164
GatewayActions == {"long_entry", "long_exit", "short_entry", "short_exit"}

\* an order request at an endpoint: "tenant" is place_order of gateway/main.py,
\* "single" is create_order of main.py; with the positions and the exception the SDK
\* answers the resulting worker request with
GatewayInputs ==
    [route : {"tenant", "single"},
     action : GatewayActions,
     symbol : ValidSymbols,
     quantity : {1, MaxQuantity},
     positions : PositionLists,
     sdk : {NoExc, Exc("AccountNotSignError", <<"account", "not", "signed">>)}]

NoGatewayInput ==
    [route |-> "none", action |-> "", symbol |-> <<>>, quantity |-> 0,
     positions |-> <<>>, sdk |-> NoExc]

\* gateway/main.py place_order, lines 415-435: the request put on the tenant's queue
place_order(g) ==
    IF g.action \in {"long_entry", "short_entry"}
    THEN [operation |-> "place_entry_order", symbol |-> g.symbol,
          quantity |-> g.quantity, action |-> g.action,
          positions |-> g.positions, sdk |-> g.sdk]
    ELSE [operation |-> "place_exit_order", symbol |-> g.symbol,
          quantity |-> g.quantity,
          action |-> (IF g.action = "long_exit" THEN "long" ELSE "short"),
          positions |-> g.positions, sdk |-> g.sdk]

\* main.py create_order, lines 500-528: the request put on the queue
create_order(g) ==
    IF g.action \in {"long_entry", "short_entry"}
    THEN [operation |-> "place_entry_order", symbol |-> g.symbol,
          quantity |-> g.quantity,
          action |-> (IF g.action = "long_entry" THEN "Buy" ELSE "Sell"),
          positions |-> g.positions, sdk |-> g.sdk]
    ELSE [operation |-> "place_exit_order", symbol |-> g.symbol,
          quantity |-> g.quantity,
          action |-> (IF g.action = "long_exit" THEN "Buy" ELSE "Sell"),
          positions |-> g.positions, sdk |-> g.sdk]

\* the tenant gateway takes the order and submits the worker request
GatewayPlaceOrder ==
    /\ gateway_in.route = "tenant"
    /\ order_in = NoOrderInput
    /\ order_in' = place_order(gateway_in)
    /\ UNCHANGED <<order_out, gateway_in, orchVars, connVars, tenantVars>>
    /\ UNCHANGED <<requestQueue, responseKeys, clients, nextRequestId, wpc, request,
                   response, api_clients, invalidating, pending_trades, nextSession,
                   nextOrder, fault, used, faulted, handling, pushOrder, popOrder,
                   respOrder, delivered, ttl, running, signalled, attempts, exhausted>>

\* the single-tenant API takes the order and submits the worker request
GatewayCreateOrder ==
    /\ gateway_in.route = "single"
    /\ order_in = NoOrderInput
    /\ order_in' = create_order(gateway_in)
    /\ UNCHANGED <<order_out, gateway_in, orchVars, connVars, tenantVars>>
    /\ UNCHANGED <<requestQueue, responseKeys, clients, nextRequestId, wpc, request,
                   response, api_clients, invalidating, pending_trades, nextSession,
                   nextOrder, fault, used, faulted, handling, pushOrder, popOrder,
                   respOrder, delivered, ttl, running, signalled, attempts, exhausted>>

OrdersIdle ==
    /\ order_in = NoOrderInput
    /\ order_out = NoOrderOutput
    /\ gateway_in = NoGatewayInput

----------------------------------------------------------------------------
(***************************************************************************)
(* TradingWorker's brokerage connections, statement by statement:          *)
(* _get_api_client, _invalidate_connection, _check_connection_health,      *)
(* _maybe_refresh_connection and the parts of run() that call them.        *)
(* Thread MainThread runs run(); the other threads only call               *)
(* _invalidate_connection.                                                 *)
(***************************************************************************)
Threads == 1..NumThreads
MainThread == 1
NoThread == 0

\* trading_worker.py line 75
HEALTH_CHECK_INTERVAL == 300

\* the clock readings of the model: up to MaxDrift seconds after a whole number of
\* intervals since StartTime
MaxClock == StartTime + 2 * HEALTH_CHECK_INTERVAL + MaxDrift
Elapsed == {1, HEALTH_CHECK_INTERVAL}

\* a thread that is not inside any of the connection methods
IdleThread ==
    [pc |-> "idle", simulation |-> FALSE, api |-> NoSession, outcome |-> "none",
     todo |-> <<>>, caller |-> "none", attempt |-> 0, current_time |-> 0]

\* an sj.Shioaji object that was not created yet
NoSessionRecord == [simulation |-> FALSE, logged_in |-> FALSE, logouts |-> 0]

NoCall ==
    [kind |-> "none", simulation |-> FALSE, session |-> NoSession, result |-> "none",
     exc |-> NoExc]

\* what old_api.logout() can do (lines 321-327): return, raise, or never return
LogoutOutcomes == {"ok", "raises", "hangs"}

\* mutant: the logout is joined without a timeout
logout_wait_Join(outcome) == IF outcome = "hangs" THEN "blocked" ELSE "done"

\* lines 329-342: logout_done.wait(timeout=CONNECTION_LOGOUT_TIMEOUT) on the helper
\* thread; do_logout sets the event whether logout returned or raised
logout_wait(outcome) == IF outcome = "hangs" THEN "timeout" ELSE "done"

\* what api.list_accounts() can do in the probe: a list, empty or not, or an exception
ProbeResults ==
    {[accounts |-> a, exc |-> NoExc] : a \in BOOLEAN}
      \cup {[accounts |-> FALSE, exc |-> e] :
              e \in {x \in SdkErrors : x.type \in ConnectionErrorTypes \cup {"Exception"}}}

\* _check_connection_health, line 380
health_check_patterns == {<<"token">>, <<"expired">>, <<"401">>}

\* _check_connection_health, lines 365-385: TRUE when the connection is kept
check_connection_health(r) ==
    IF r.exc = NoExc THEN r.accounts
    ELSE IF r.exc.type \in ConnectionErrorTypes THEN FALSE
    ELSE ~ \E pat \in health_check_patterns : Contains(Lower(r.exc.text), pat)

\* mutant: one slot for both modes
store_session_Shared(stored, sim, api) == [s \in BOOLEAN |-> api]

\* _get_api_client, line 235
store_session(stored, sim, api) == [stored EXCEPT ![sim] = api]

\* where a thread goes on when _invalidate_connection or the probe returns
ReturnTo(t) ==
    IF t.caller \in {"refresh", "cleanup"}
    THEN [t EXCEPT !.pc = "foreach", !.api = NoSession]
    ELSE [IdleThread EXCEPT !.simulation = t.simulation, !.outcome = t.outcome]

ConnIdle ==
    /\ clock = StartTime
    /\ last_successful_request = [sim \in BOOLEAN |-> 0]
    /\ last_health_check = 0
    /\ connection_lock = NoThread
    /\ threads = [th \in Threads |->
                    IF th = MainThread THEN [IdleThread EXCEPT !.pc = "new"]
                    ELSE IdleThread]
    /\ sessions = [x \in 1..MaxSessions |-> NoSessionRecord]
    /\ sdk_call = NoCall

\* time passes
Tick ==
    /\ \E d \in Elapsed :
         /\ clock + d <= MaxClock
         /\ (clock + d - StartTime) % HEALTH_CHECK_INTERVAL <= MaxDrift
         /\ clock' = clock + d
    /\ UNCHANGED <<last_successful_request, last_health_check, connection_lock, threads,
                   sessions, sdk_call, api_clients, invalidating, nextSession>>
    /\ UNCHANGED <<queueVars, orderVars, orchVars, tenantVars>>

\* run, lines 973-978: the initial connection in simulation mode is begun
RunBegin ==
    /\ threads[MainThread].pc = "new"
    /\ threads' = [threads EXCEPT ![MainThread] =
                     [IdleThread EXCEPT !.pc = "connect", !.simulation = TRUE,
                                        !.caller = "run", !.attempt = 1]]
    /\ sdk_call' = NoCall
    /\ UNCHANGED <<clock, last_successful_request, last_health_check, connection_lock,
                   sessions, api_clients, invalidating, nextSession>>
    /\ UNCHANGED <<queueVars, orderVars, orchVars, tenantVars>>

\* run, lines 1004-1009, and _handle_request's call of _get_api_client, lines 206-207:
\* a request for mode sim was popped
RequestBegin(sim) ==
    /\ threads[MainThread].pc = "idle"
    /\ threads' = [threads EXCEPT ![MainThread] =
                     IF api_clients[sim] # NoSession
                     THEN [IdleThread EXCEPT !.pc = "execute", !.simulation = sim,
                                             !.caller = "request",
                                             !.api = api_clients[sim]]
                     ELSE [IdleThread EXCEPT !.pc = "connect", !.simulation = sim,
                                             !.caller = "request", !.attempt = 1]]
    /\ sdk_call' = NoCall
    /\ UNCHANGED <<clock, last_successful_request, last_health_check, connection_lock,
                   sessions, api_clients, invalidating, nextSession>>
    /\ UNCHANGED <<queueVars, orderVars, orchVars, tenantVars>>

\* _get_api_client, lines 222-256: one attempt of the retry loop.  A new sj.Shioaji
\* is created and logged in; in real mode _activate_ca (258-286) follows; the object
\* is stored only when both went through.  After the last attempt the exception
\* leaves the method: run() logs it (979-980), _handle_request answers with a failure.
LoginAttempt ==
    LET t == threads[MainThread]
        sim == t.simulation
    IN  /\ t.pc = "connect"
        /\ \E login \in {"ok", "raises"}, ca \in {"ok", "raises"} :
             /\ login = "ok" => nextSession <= MaxSessions
             /\ ca = "raises" => (login = "ok" /\ ~sim)
             /\ IF login = "ok"
                THEN /\ sessions' = [sessions EXCEPT ![nextSession] =
                                       [simulation |-> sim, logged_in |-> TRUE,
                                        logouts |-> 0]]
                     /\ nextSession' = nextSession + 1
                ELSE UNCHANGED <<sessions, nextSession>>
             /\ IF login = "ok" /\ ca = "ok"
                THEN /\ api_clients' = store_session(api_clients, sim, nextSession)
                     /\ last_successful_request' =
                           [last_successful_request EXCEPT ![sim] = clock]
                     /\ threads' = [threads EXCEPT ![MainThread] =
                                      IF t.caller = "run" THEN IdleThread
                                      ELSE [t EXCEPT !.pc = "execute",
                                                     !.api = nextSession,
                                                     !.attempt = 0]]
                ELSE /\ UNCHANGED <<api_clients, last_successful_request>>
                     /\ threads' = [threads EXCEPT ![MainThread] =
                                      IF t.attempt < MAX_RECONNECT_ATTEMPTS
                                      THEN [t EXCEPT !.attempt = @ + 1]
                                      ELSE IdleThread]
             /\ sdk_call' = [NoCall EXCEPT
                               !.kind = "login", !.simulation = sim,
                               !.session = IF login = "ok" THEN nextSession
                                           ELSE NoSession,
                               !.result = IF login = "raises" THEN "raises"
                                          ELSE IF ca = "raises" THEN "ca_raises"
                                          ELSE "ok"]
        /\ last_health_check' = IF t.caller = "run" /\ threads'[MainThread].pc = "idle"
                                THEN clock ELSE last_health_check
        /\ UNCHANGED <<clock, connection_lock, invalidating>>
        /\ UNCHANGED <<queueVars, orderVars, orchVars, tenantVars>>

\* _handle_request, lines 582-773, and run, lines 1012-1013: the operation is carried
\* out on the session _get_api_client returned; a success is recorded for the
\* request's mode, a connection fault invalidates the mode's connection
Execute ==
    LET t == threads[MainThread]
    IN  /\ t.pc = "execute"
        /\ \E result \in {"success", "failure", "fault"} :
             /\ sdk_call' = [NoCall EXCEPT !.kind = "execute",
                                           !.simulation = t.simulation,
                                           !.session = t.api, !.result = result]
             /\ last_successful_request' =
                   IF result = "success"
                   THEN [last_successful_request EXCEPT ![t.simulation] = clock]
                   ELSE last_successful_request
             /\ threads' = [threads EXCEPT ![MainThread] =
                              IF result = "fault"
                              THEN [t EXCEPT !.pc = "invalidate", !.api = NoSession]
                              ELSE [IdleThread EXCEPT !.simulation = t.simulation]]
        /\ UNCHANGED <<clock, last_health_check, connection_lock, sessions,
                       api_clients, invalidating, nextSession>>
        /\ UNCHANGED <<queueVars, orderVars, orchVars, tenantVars>>

\* run, lines 992-1001: blpop timed out; the health round is begun when more than
\* HEALTH_CHECK_INTERVAL has passed since the last one
IdlePoll ==
    /\ threads[MainThread].pc = "idle"
    /\ threads' = [threads EXCEPT ![MainThread] =
                     IF clock - last_health_check > HEALTH_CHECK_INTERVAL
                     THEN [IdleThread EXCEPT !.pc = "foreach",
                                             !.todo = <<TRUE, FALSE>>,
                                             !.caller = "refresh",
                                             !.current_time = clock]
                     ELSE IdleThread]
    /\ sdk_call' = [NoCall EXCEPT !.kind = "poll"]
    /\ UNCHANGED <<clock, last_successful_request, last_health_check, connection_lock,
                   sessions, api_clients, invalidating, nextSession>>
    /\ UNCHANGED <<queueVars, orderVars, orchVars, tenantVars>>

\* run, lines 1033-1039: the loop was left and the cleanup is begun
CleanupBegin ==
    /\ threads[MainThread].pc = "idle"
    /\ threads' = [threads EXCEPT ![MainThread] =
                     [IdleThread EXCEPT !.pc = "foreach", !.todo = <<TRUE, FALSE>>,
                                        !.caller = "cleanup"]]
    /\ sdk_call' = NoCall
    /\ UNCHANGED <<clock, last_successful_request, last_health_check, connection_lock,
                   sessions, api_clients, invalidating, nextSession>>
    /\ UNCHANGED <<queueVars, orderVars, orchVars, tenantVars>>

\* one turn of `for sim_mode in [True, False]` (lines 997-1000, with
\* _maybe_refresh_connection 387-406 and _check_connection_health 352-385) or of
\* `for simulation in [True, False]` (lines 1035-1039)
ForEach ==
    LET t == threads[MainThread]
        s == Head(t.todo)
        rest == [t EXCEPT !.todo = Tail(@)]
    IN  /\ t.pc = "foreach"
        /\ IF t.todo = <<>>
           THEN /\ threads' = [threads EXCEPT ![MainThread] =
                                 IF t.caller = "cleanup"
                                 THEN [IdleThread EXCEPT !.pc = "stopped"]
                                 ELSE IdleThread]
                /\ last_health_check' = IF t.caller = "refresh" THEN t.current_time
                                        ELSE last_health_check
                /\ sdk_call' = NoCall
                /\ UNCHANGED last_successful_request
           ELSE /\ UNCHANGED last_health_check
                /\ IF api_clients[s] = NoSession
                   THEN /\ threads' = [threads EXCEPT ![MainThread] = rest]
                        /\ sdk_call' = NoCall
                        /\ UNCHANGED last_successful_request
                   ELSE IF t.caller = "cleanup"
                   THEN /\ threads' = [threads EXCEPT ![MainThread] =
                                         [rest EXCEPT !.pc = "invalidate",
                                                      !.simulation = s]]
                        /\ sdk_call' = NoCall
                        /\ UNCHANGED last_successful_request
                   ELSE IF ~(clock - last_successful_request[s] > HEALTH_CHECK_INTERVAL)
                   THEN /\ threads' = [threads EXCEPT ![MainThread] = rest]
                        /\ sdk_call' = NoCall
                        /\ UNCHANGED last_successful_request
                   ELSE \E r \in ProbeResults :
                          /\ sdk_call' = [kind |-> "probe", simulation |-> s,
                                          session |-> api_clients[s],
                                          result |-> IF r.exc # NoExc THEN "raises"
                                                     ELSE IF r.accounts THEN "accounts"
                                                     ELSE "empty",
                                          exc |-> r.exc]
                          /\ last_successful_request' =
                                IF r.exc = NoExc /\ r.accounts
                                THEN [last_successful_request EXCEPT ![s] = clock]
                                ELSE last_successful_request
                          /\ threads' = [threads EXCEPT ![MainThread] =
                                           IF check_connection_health(r) THEN rest
                                           ELSE [rest EXCEPT !.pc = "invalidate",
                                                             !.simulation = s]]
        /\ UNCHANGED <<clock, connection_lock, sessions, api_clients, invalidating,
                       nextSession>>
        /\ UNCHANGED <<queueVars, orderVars, orchVars, tenantVars>>

\* a thread other than the one in run() calls _invalidate_connection(sim)
ExternalInvalidate(th, sim) ==
    /\ th # MainThread
    /\ threads[th].pc = "idle"
    /\ threads' = [threads EXCEPT ![th] =
                     [IdleThread EXCEPT !.pc = "invalidate", !.simulation = sim,
                                        !.caller = "external"]]
    /\ sdk_call' = NoCall
    /\ UNCHANGED <<clock, last_successful_request, last_health_check, connection_lock,
                   sessions, api_clients, invalidating, nextSession>>
    /\ UNCHANGED <<queueVars, orderVars, orchVars, tenantVars>>

\* _invalidate_connection, lines 297-300: the flag is read, outside the lock
InvalidateEnter(th) ==
    LET t == threads[th]
    IN  /\ t.pc = "invalidate"
        /\ threads' = [threads EXCEPT ![th] =
                         IF invalidating[t.simulation] THEN ReturnTo(t)
                         ELSE [t EXCEPT !.pc = "lock"]]
        /\ sdk_call' = NoCall
        /\ UNCHANGED <<clock, last_successful_request, last_health_check,
                       connection_lock, sessions, api_clients, invalidating,
                       nextSession>>
        /\ UNCHANGED <<queueVars, orderVars, orchVars, tenantVars>>

\* mutant: the stored reference is left in place
InvalidateAcquire_KeepsReference(th) ==
    LET t == threads[th]
        sim == t.simulation
    IN  /\ t.pc = "lock"
        /\ connection_lock = NoThread
        /\ api_clients[sim] # NoSession
        /\ connection_lock' = th
        /\ invalidating' = [invalidating EXCEPT ![sim] = TRUE]
        /\ threads' = [threads EXCEPT ![th] =
                         [t EXCEPT !.pc = "logout", !.api = api_clients[sim]]]
        /\ sdk_call' = NoCall
        /\ UNCHANGED <<clock, last_successful_request, last_health_check, sessions,
                       nextSession, api_clients>>
        /\ UNCHANGED <<queueVars, orderVars, orchVars, tenantVars>>

\* _invalidate_connection, lines 302-313: the lock is taken; without a stored session
\* the method returns, else the flag is set and the reference is moved to old_api
InvalidateAcquire(th) ==
    LET t == threads[th]
        sim == t.simulation
    IN  /\ t.pc = "lock"
        /\ connection_lock = NoThread
        /\ IF api_clients[sim] = NoSession
           THEN /\ threads' = [threads EXCEPT ![th] = ReturnTo(t)]
                /\ UNCHANGED <<connection_lock, invalidating, api_clients>>
           ELSE /\ connection_lock' = th
                /\ invalidating' = [invalidating EXCEPT ![sim] = TRUE]
                /\ threads' = [threads EXCEPT ![th] =
                                 [t EXCEPT !.pc = "logout", !.api = api_clients[sim]]]
                /\ api_clients' = [api_clients EXCEPT ![sim] = NoSession]
        /\ sdk_call' = NoCall
        /\ UNCHANGED <<clock, last_successful_request, last_health_check, sessions,
                       nextSession>>
        /\ UNCHANGED <<queueVars, orderVars, orchVars, tenantVars>>

\* _invalidate_connection, lines 318-330: the helper thread is started and calls
\* old_api.logout()
InvalidateLogout(th) ==
    LET t == threads[th]
    IN  /\ t.pc = "logout"
        /\ \E outcome \in LogoutOutcomes :
             /\ threads' = [threads EXCEPT ![th] =
                              [t EXCEPT !.pc = "wait", !.outcome = outcome]]
             /\ sdk_call' = [NoCall EXCEPT !.kind = "logout",
                                           !.simulation = t.simulation,
                                           !.session = t.api, !.result = outcome]
        /\ sessions' = [sessions EXCEPT ![t.api].logouts = @ + 1]
        /\ UNCHANGED <<clock, last_successful_request, last_health_check,
                       connection_lock, api_clients, invalidating, nextSession>>
        /\ UNCHANGED <<queueVars, orderVars, orchVars, tenantVars>>

\* _invalidate_connection, lines 332-350: the wait on the helper ends, the flag is
\* cleared in the finally clause and the lock is released
InvalidateReturn(th) ==
    LET t == threads[th]
    IN  /\ t.pc = "wait"
        /\ logout_wait(t.outcome) # "blocked"
        /\ invalidating' = [invalidating EXCEPT ![t.simulation] = FALSE]
        /\ connection_lock' = NoThread
        /\ threads' = [threads EXCEPT ![th] = ReturnTo(t)]
        /\ sdk_call' = NoCall
        /\ UNCHANGED <<clock, last_successful_request, last_health_check, sessions,
                       api_clients, nextSession>>
        /\ UNCHANGED <<queueVars, orderVars, orchVars, tenantVars>>

----------------------------------------------------------------------------
(***************************************************************************)
(* Several tenants' clients and workers on one Redis database: the key     *)
(* names of trading_queue.py and TradingWorker.__init__.  A key is the     *)
(* sequence of the pieces its f-string puts together.                      *)
(***************************************************************************)
TenantIds == {"t1", "t2"}
Callers == 1..NumCallers
Uuids == <<"u1", "u2", "u3">>

\* mutant: no tenant prefix
get_queue_prefix_Shared(tenant_id, env) == <<>>

\* trading_queue.py get_queue_prefix, lines 27-30, with the module's TENANT_ID (line 21)
get_queue_prefix(tenant_id, env) ==
    LET tid == IF tenant_id # "" THEN tenant_id ELSE env
    IN  IF tid # "" THEN <<"tenant:", tid, ":">> ELSE <<>>

\* trading_queue.py lines 92-93 and trading_worker.py lines 97-98
request_queue(prefix) == prefix \o <<"trading:requests">>
response_key(prefix, request_id) == prefix \o <<"trading:response:", request_id>>

\* every key the parties of the model can name
StoreKeys ==
    LET prefixes == {get_queue_prefix(t, "") : t \in TenantIds \cup {""}}
    IN  {request_queue(p) : p \in prefixes}
          \cup {response_key(p, Uuids[i]) : p \in prefixes, i \in 1..Len(Uuids)}

NoTenantRequest == [request_id |-> "", pushed_for |-> ""]

TenantsIdle ==
    /\ store = [k \in StoreKeys |-> <<>>]
    /\ callers = [c \in Callers |->
                    [pc |-> "idle", tenant_id |-> "", request_id |-> "", got |-> ""]]
    /\ tworkers = [t \in TenantIds |-> [pc |-> "poll", request |-> NoTenantRequest]]
    /\ nextUuid = 1

\* TradingQueueClient(redis_url, tenant_id).submit_request, lines 129-143: a fresh
\* uuid4, the request pushed on the tenant's request queue
TenantSubmit(c, tid) ==
    /\ callers[c].pc = "idle"
    /\ nextUuid <= Len(Uuids)
    /\ store' = [store EXCEPT ![request_queue(get_queue_prefix(tid, ""))] =
                   Append(@, [request_id |-> Uuids[nextUuid], pushed_for |-> tid])]
    /\ callers' = [callers EXCEPT ![c] =
                     [pc |-> "waiting", tenant_id |-> tid,
                      request_id |-> Uuids[nextUuid], got |-> ""]]
    /\ nextUuid' = nextUuid + 1
    /\ UNCHANGED tworkers
    /\ UNCHANGED <<api_clients, invalidating, nextSession>>
    /\ UNCHANGED <<queueVars, orderVars, orchVars, connVars>>

\* submit_request, lines 145-160: blpop on the caller's own response key; the
\* response is returned, or TimeoutError is raised when the wait ends first
TenantReceive(c) ==
    LET key == response_key(get_queue_prefix(callers[c].tenant_id, ""),
                            callers[c].request_id)
    IN  /\ callers[c].pc = "waiting"
        /\ IF store[key] # <<>>
           THEN /\ callers' = [callers EXCEPT ![c].pc = "idle",
                                              ![c].got = Head(store[key]).request_id]
                /\ store' = [store EXCEPT ![key] = Tail(@)]
           ELSE /\ callers' = [callers EXCEPT ![c].pc = "idle",
                                              ![c].got = "TimeoutError"]
                /\ UNCHANGED store
        /\ UNCHANGED <<tworkers, nextUuid>>
        /\ UNCHANGED <<api_clients, invalidating, nextSession>>
        /\ UNCHANGED <<queueVars, orderVars, orchVars, connVars>>

\* TradingWorker.run, lines 990 and 1003-1004, of the worker started with
\* TENANT_ID = t: blpop on its request queue
TenantPop(t) ==
    LET key == request_queue(get_queue_prefix(t, t))
    IN  /\ tworkers[t].pc = "poll"
        /\ store[key] # <<>>
        /\ tworkers' = [tworkers EXCEPT ![t] = [pc |-> "respond",
                                                request |-> Head(store[key])]]
        /\ store' = [store EXCEPT ![key] = Tail(@)]
        /\ UNCHANGED <<callers, nextUuid>>
        /\ UNCHANGED <<api_clients, invalidating, nextSession>>
        /\ UNCHANGED <<queueVars, orderVars, orchVars, connVars>>

\* TradingWorker.run, lines 1009-1018: the response, carrying the request's id, is
\* pushed on the response key of that id under the worker's prefix
TenantRespond(t) ==
    /\ tworkers[t].pc = "respond"
    /\ store' = [store EXCEPT
                   ![response_key(get_queue_prefix(t, t),
                                  tworkers[t].request.request_id)] =
                      Append(@, [request_id |-> tworkers[t].request.request_id])]
    /\ tworkers' = [tworkers EXCEPT ![t].pc = "poll"]
    /\ UNCHANGED <<callers, nextUuid>>
    /\ UNCHANGED <<api_clients, invalidating, nextSession>>
    /\ UNCHANGED <<queueVars, orderVars, orchVars, connVars>>

----------------------------------------------------------------------------
WorkerIdle ==
    /\ requestQueue = <<>>
    /\ responseKeys = [id \in RequestIds |-> <<>>]
    /\ clients = [c \in Clients |-> [pc |-> "idle", request_id |-> NoRequestId,
                                     result |-> "none", response |-> NoResponse]]
    /\ nextRequestId = 1
    /\ wpc = "new"
    /\ request = NoRequest
    /\ response = NoResponse
    /\ api_clients = [sim \in BOOLEAN |-> NoSession]
    /\ invalidating = [sim \in BOOLEAN |-> FALSE]
    /\ pending_trades = {}
    /\ nextSession = 1
    /\ nextOrder = 1
    /\ fault = NoExc
    /\ used = NoSession
    /\ faulted = {}
    /\ handling = {}
    /\ pushOrder = <<>>
    /\ popOrder = <<>>
    /\ respOrder = <<>>
    /\ delivered = [id \in RequestIds |-> 0]
    /\ ttl = [id \in RequestIds |-> FALSE]
    /\ running = FALSE
    /\ signalled = FALSE
    /\ attempts = 0
    /\ exhausted = [sim \in BOOLEAN |-> 0]
    /\ ConnIdle
    /\ TenantsIdle

OrchestratorIdle ==
    /\ instances = {}
    /\ containers = {}
    /\ audit = <<>>
    /\ mgr = [m \in Managers |-> IdleCall]
    /\ last = Event("none", 0, "ok")
    /\ nextRowId = 1
    /\ nextContainerId = 1

Init ==
    /\ OrchestratorIdle
    /\ credentials \in SUBSET Tenants
    /\ serial = FALSE
    /\ WorkerIdle
    /\ OrdersIdle

InitSerial ==
    /\ OrchestratorIdle
    /\ credentials \in SUBSET Tenants
    /\ serial = TRUE
    /\ WorkerIdle
    /\ OrdersIdle

\* Tenants beyond those whose calls the model makes: NumRedisDbs - 1 tenants that were
\* created and started one after the other, the k-th holding slot k - 1
BackgroundTenants == 1 .. (NumRedisDbs - 1)

BackgroundRow(k) ==
    [NewInstance(MaxRows + k, NumTenants + k, k - 1) EXCEPT
        !.container_id = MaxContainers + k, !.status = "running", !.started_at = "set"]

BackgroundContainer(k) ==
    [id |-> MaxContainers + k, name |-> NumTenants + k, state |-> "running"]

\* the audit entries of their create and start calls
BackgroundAudit ==
    [i \in 1 .. 2 * (NumRedisDbs - 1) |->
        LET k == (i + 1) \div 2 IN
        IF i % 2 = 1
        THEN AuditEntry("worker_started", NumTenants + k, MaxContainers + k, k - 1)
        ELSE AuditEntry("worker_started", NumTenants + k, NoContainer, NoSlot)]

\* the slot whose holder was destroyed before the model's calls begin (NoSlot: none)
ReleasedSlots == {NoSlot, 1, 7}

\* the state after the background tenants' calls: slots 0..14 held, but for one released
InitAlloc ==
    /\ \E hole \in ReleasedSlots :
         /\ instances = {BackgroundRow(k) : k \in {j \in BackgroundTenants : j - 1 # hole}}
         /\ containers =
              {BackgroundContainer(k) : k \in {j \in BackgroundTenants : j - 1 # hole}}
    /\ audit = BackgroundAudit
    /\ mgr = [m \in Managers |-> IdleCall]
    /\ last = Event("none", 0, "ok")
    /\ nextRowId = 1
    /\ nextContainerId = 1
    /\ credentials = Tenants
    /\ serial = TRUE
    /\ WorkerIdle
    /\ OrdersIdle

InitWorker ==
    /\ OrchestratorIdle
    /\ credentials = {}
    /\ serial = TRUE
    /\ WorkerIdle
    /\ OrdersIdle

Next ==
    \/ \E m \in Managers, t \in Tenants : CreateBegin(m, t)
    \/ \E m \in Managers : CreateInsert(m)
    \/ \E m \in Managers : CreateExportFails(m)
    \/ \E m \in Managers : CreateContainerFails(m)
    \/ \E m \in Managers : CreateFinish(m)
    \/ \E t \in Tenants : StartWorker(t)
    \/ \E t \in Tenants : StopWorker(t)
    \/ \E t \in Tenants : HibernateWorker(t)
    \/ \E t \in Tenants : WakeWorker(t)
    \/ \E t \in Tenants : DestroyWorker(t)
    \/ \E t \in Tenants : ContainerRemoved(t)

InitOrders ==
    /\ OrchestratorIdle
    /\ credentials = {}
    /\ serial = TRUE
    /\ WorkerIdle
    /\ order_in \in OrderInputs
    /\ order_out = NoOrderOutput
    /\ gateway_in = NoGatewayInput

InitGateway ==
    /\ OrchestratorIdle
    /\ credentials = {}
    /\ serial = TRUE
    /\ WorkerIdle
    /\ order_in = NoOrderInput
    /\ order_out = NoOrderOutput
    /\ gateway_in \in GatewayInputs

\* the orchestrator's calls with the health check among them
NextHealth ==
    \/ \E m \in Managers, t \in Tenants : CreateBegin(m, t)
    \/ \E m \in Managers : CreateInsert(m)
    \/ \E m \in Managers : CreateExportFails(m)
    \/ \E m \in Managers : CreateContainerFails(m)
    \/ \E m \in Managers : CreateFinish(m)
    \/ \E t \in Tenants : StartWorker(t)
    \/ \E t \in Tenants : StopWorker(t)
    \/ \E t \in Tenants : HibernateWorker(t)
    \/ \E t \in Tenants : WakeWorker(t)
    \/ \E t \in Tenants : DestroyWorker(t)
    \/ \E t \in Tenants : ContainerRemoved(t)
    \/ \E t \in Tenants : CheckWorkerHealth(t)

NextOrders ==
    \/ PlaceEntryOrder
    \/ PlaceExitOrder

\* an order from the endpoint to the brokerage
NextGateway ==
    \/ GatewayPlaceOrder
    \/ GatewayCreateOrder
    \/ PlaceEntryOrder
    \/ PlaceExitOrder

NextWorker ==
    \/ \E c \in Clients, sub \in Submissions, sim \in BOOLEAN : SubmitRequest(c, sub, sim)
    \/ \E c \in Clients : ReceiveResponse(c)
    \/ \E c \in Clients : TimeoutRequest(c)
    \/ WorkerRun
    \/ LoopCheck
    \/ PollTimeout
    \/ PollFails
    \/ PopRequest
    \/ HandleRequest
    \/ SendResponse
    \/ SendResponseFails

\* the requests the queue protocol is exercised with: a ping in either mode, which
\* is answered with success=true, or with success=false when the login fails
QueueSubmissions == {sub \in Submissions : sub.operation = "ping"}

\* queue, clients and worker when Redis commands can fail and response keys expire
NextQueue ==
    \/ \E c \in Clients, sub \in QueueSubmissions, sim \in BOOLEAN :
          SubmitRequest(c, sub, sim)
    \/ \E c \in Clients : SubmitFails(c)
    \/ \E c \in Clients : WaitFails(c)
    \/ \E c \in Clients : ReceiveResponse(c)
    \/ \E c \in Clients : TimeoutRequest(c)
    \/ WorkerRun
    \/ LoopCheck
    \/ PollTimeout
    \/ PollFails
    \/ PopRequest
    \/ HandleRequest
    \/ SendResponse
    \/ SendResponseExpireFails
    \/ SendResponseFails
    \/ \E id \in RequestIds : ExpireKey(id)

\* queue, clients and worker with termination signals
NextShutdown ==
    \/ \E c \in Clients, sub \in QueueSubmissions, sim \in BOOLEAN :
          SubmitRequest(c, sub, sim)
    \/ \E c \in Clients : ReceiveResponse(c)
    \/ \E c \in Clients : TimeoutRequest(c)
    \/ WorkerRun
    \/ Signal
    \/ LoopCheck
    \/ Shutdown
    \/ PollTimeout
    \/ PollFails
    \/ PopRequest
    \/ HandleRequest
    \/ SendResponse
    \/ SendResponseFails

\* queue, clients and worker with termination signals at any time after construction
NextSignal ==
    \/ \E c \in Clients, sub \in QueueSubmissions, sim \in BOOLEAN :
          SubmitRequest(c, sub, sim)
    \/ \E c \in Clients : ReceiveResponse(c)
    \/ \E c \in Clients : TimeoutRequest(c)
    \/ SignalBeforeRun
    \/ WorkerRun
    \/ Signal
    \/ LoopCheck
    \/ Shutdown
    \/ PollTimeout
    \/ PollFails
    \/ PopRequest
    \/ HandleRequest
    \/ SendResponse
    \/ SendResponseFails

\* the connection code as run() drives it
NextConn ==
    \/ Tick
    \/ RunBegin
    \/ \E sim \in BOOLEAN : RequestBegin(sim)
    \/ LoginAttempt
    \/ Execute
    \/ IdlePoll
    \/ CleanupBegin
    \/ ForEach
    \/ InvalidateEnter(MainThread)
    \/ InvalidateAcquire(MainThread)
    \/ InvalidateLogout(MainThread)
    \/ InvalidateReturn(MainThread)

\* the connection code as run() drives it while no time passes
NextConnInstant ==
    \/ RunBegin
    \/ \E sim \in BOOLEAN : RequestBegin(sim)
    \/ LoginAttempt
    \/ Execute
    \/ CleanupBegin
    \/ ForEach
    \/ InvalidateEnter(MainThread)
    \/ InvalidateAcquire(MainThread)
    \/ InvalidateLogout(MainThread)
    \/ InvalidateReturn(MainThread)

\* the connection code with _invalidate_connection called from several threads
NextConnThreads ==
    \/ RunBegin
    \/ \E sim \in BOOLEAN : RequestBegin(sim)
    \/ LoginAttempt
    \/ Execute
    \/ CleanupBegin
    \/ ForEach
    \/ \E th \in Threads, sim \in BOOLEAN : ExternalInvalidate(th, sim)
    \/ \E th \in Threads : InvalidateEnter(th)
    \/ \E th \in Threads : InvalidateAcquire(th)
    \/ \E th \in Threads : InvalidateLogout(th)
    \/ \E th \in Threads : InvalidateReturn(th)

\* callers and workers of all tenants, interleaved
NextTenants ==
    \/ \E c \in Callers, tid \in TenantIds : TenantSubmit(c, tid)
    \/ \E c \in Callers : TenantReceive(c)
    \/ \E t \in TenantIds : TenantPop(t)
    \/ \E t \in TenantIds : TenantRespond(t)

vars == <<orchVars, workerVars>>

\* the orchestrator with interleaving calls
Spec == Init /\ [][Next]_vars

\* the orchestrator serving one call at a time
SpecSerial == InitSerial /\ [][Next]_vars

\* the orchestrator serving one call at a time when the slots are nearly all held
SpecAlloc == InitAlloc /\ [][Next]_vars

\* the orchestrator serving one call at a time, health checks among the calls
SpecHealth == InitSerial /\ [][NextHealth]_vars

\* the order handlers applied to every request and position list of the bounds
SpecOrders == InitOrders /\ [][NextOrders]_vars

\* the connections of one worker, with run() as the only thread that touches them
SpecConn == InitWorker /\ [][NextConn]_vars

\* requests and cleanup at one instant, where run()'s thread goes on executing
\* _invalidate_connection once it has entered it
SpecConnLive ==
    /\ InitWorker /\ [][NextConnInstant]_vars
    /\ WF_vars(\E th \in Threads : InvalidateEnter(th))
    /\ WF_vars(\E th \in Threads : InvalidateAcquire(th))
    /\ WF_vars(\E th \in Threads : InvalidateLogout(th))
    /\ WF_vars(\E th \in Threads : InvalidateReturn(th))

\* the connections of one worker, with other threads calling _invalidate_connection
SpecConnThreads == InitWorker /\ [][NextConnThreads]_vars

\* the tenants' callers and workers on one shared Redis database
SpecTenants == InitWorker /\ [][NextTenants]_vars

\* every order request of the bounds, through either endpoint and the order handler
SpecGateway == InitGateway /\ [][NextGateway]_vars

\* one tenant's queue, clients and worker
SpecWorker == InitWorker /\ [][NextWorker]_vars

\* one tenant's queue, clients and worker, with Redis failures and key expiry
SpecQueue == InitWorker /\ [][NextQueue]_vars

\* SpecQueue with a worker that keeps running and a Redis that does not fail every
\* blpop for ever: the loop goes on, a waiting request is popped, a popped request
\* is handled and the iteration ends
SpecQueueLive ==
    /\ SpecQueue
    /\ WF_vars(WorkerRun)
    /\ WF_vars(LoopCheck)
    /\ SF_vars(PopRequest)
    /\ WF_vars(HandleRequest)
    /\ WF_vars(SendResponse \/ SendResponseExpireFails \/ SendResponseFails)

\* one tenant's queue, clients and worker, with termination signals
SpecShutdown == InitWorker /\ [][NextShutdown]_vars

\* SpecShutdown with a worker whose steps each come to an end: blpop returns within
\* QUEUE_POLL_TIMEOUT, a request is handled and answered, the loop condition is
\* evaluated and the cleanup runs
SpecShutdownLive ==
    /\ SpecShutdown
    /\ WF_vars(WorkerRun)
    /\ WF_vars(LoopCheck)
    /\ WF_vars(Shutdown)
    /\ WF_vars(PopRequest \/ PollTimeout \/ PollFails)
    /\ WF_vars(HandleRequest)
    /\ WF_vars(SendResponse \/ SendResponseFails)

\* SpecShutdown with signals that may also arrive before run() has set running
SpecSignal == InitWorker /\ [][NextSignal]_vars

\* SpecSignal with a worker whose steps each come to an end, as in SpecShutdownLive
SpecSignalLive ==
    /\ SpecSignal
    /\ WF_vars(WorkerRun)
    /\ WF_vars(LoopCheck)
    /\ WF_vars(Shutdown)
    /\ WF_vars(PopRequest \/ PollTimeout \/ PollFails)
    /\ WF_vars(HandleRequest)
    /\ WF_vars(SendResponse \/ SendResponseFails)

----------------------------------------------------------------------------
(***************************************************************************)
(* The claims.                                                             *)
(***************************************************************************)

\* a status other than Stopped or Error
NonTerminal(r) == r.status \notin {"stopped", "error"}

\* C1: in every state reached by a sequence of create, start, stop, hibernate, wake
\* and destroy calls, no two instances with a non-terminal status record the same
\* redis_db.  (Checked under SpecSerial, where calls do not interleave.)
C1_SlotsUniqueAmongNonTerminal ==
    \A r1 \in instances, r2 \in instances :
        (r1 # r2 /\ NonTerminal(r1) /\ NonTerminal(r2)) => r1.redis_db # r2.redis_db

\* C2: two create calls for different tenants that interleave between reading the
\* used slots and committing the row never both end up holding the same slot: no two
\* instances that create left Pending for different tenants record the same redis_db.
C2_ConcurrentCreatesGetDistinctSlots ==
    \A r1 \in instances, r2 \in instances :
        (r1.tenant_id # r2.tenant_id /\ r1.status = "pending" /\ r2.status = "pending")
            => r1.redis_db # r2.redis_db

\* C9: in every reachable state there is at most one WorkerInstance per tenant, also
\* when create calls for the same tenant interleave.
C9_OneInstancePerTenant ==
    \A r1 \in instances, r2 \in instances : r1.tenant_id = r2.tenant_id => r1 = r2

\* C9 witness: a create for a tenant got as far as its INSERT while another create
\* had already inserted the tenant's row, and was refused.
C9_Witness ==
    /\ last.op = "create_insert"
    /\ last.cause = "IntegrityError"
    /\ \E r \in instances : r.tenant_id = last.tenant_id

\* C10: create(t), when t already has an instance whose status is not Stopped or
\* Error, fails with WorkerAlreadyRunningError and leaves the instances, the slots,
\* the containers and the audit log unchanged.
C10_CreateOnLiveInstanceFails ==
    [][\A t \in Tenants :
          ((\E r \in instances : r.tenant_id = t /\ r.status \notin {"stopped", "error"})
           /\ last'.op = "create" /\ last'.tenant_id = t)
          => (/\ last'.outcome = "WorkerAlreadyRunningError"
              /\ instances' = instances
              /\ containers' = containers
              /\ audit' = audit
              /\ mgr' = mgr)]_vars

\* C10 witness: a create was refused for a tenant whose instance is hibernating or
\* running and has a container.
C10_Witness ==
    /\ last.op = "create"
    /\ last.outcome = "WorkerAlreadyRunningError"
    /\ \E r \in instances :
         /\ r.tenant_id = last.tenant_id
         /\ r.status \in {"hibernating", "running"}
         /\ r.container_id # NoContainer

\* C3: the worker pushes at most one response onto a request's response key, the
\* response carries the request's id, and a submit call returns that response or
\* raises TimeoutError (ConnectionError when Redis cannot be reached), never a
\* second response for the id.
C3_AtMostOneMatchingResponse ==
    /\ \A id \in RequestIds :
         /\ Count(respOrder, id) <= 1
         /\ Len(responseKeys[id]) + delivered[id] <= 1
         /\ \A i \in 1..Len(responseKeys[id]) : responseKeys[id][i].request_id = id
    /\ \A c \in Clients :
         /\ clients[c].result = "response"
                => clients[c].response.request_id = clients[c].request_id
         /\ clients[c].result \in {"none", "response", "TimeoutError", "ConnectionError"}

\* C3 witness: one client got the response to its request and another timed out.
C3_Witness ==
    \E c1 \in Clients, c2 \in Clients :
        /\ clients[c1].result = "response"
        /\ delivered[clients[c1].request_id] = 1
        /\ clients[c2].result = "TimeoutError"

IsPrefix(a, b) == Len(a) <= Len(b) /\ \A i \in 1..Len(a) : a[i] = b[i]

Position(seq, x) == CHOOSE i \in 1..Len(seq) : seq[i] = x

\* C4: the requests pushed onto the queue are each popped once and in the order in
\* which they were pushed, and the responses are produced in push order.
C4_FifoExactlyOnce ==
    /\ IsPrefix(popOrder, pushOrder)
    /\ \A id \in RequestIds : Count(popOrder, id) <= 1
    /\ \A i \in 1..Len(respOrder) : Count(pushOrder, respOrder[i]) = 1
    /\ \A i \in 1..Len(respOrder), j \in 1..Len(respOrder) :
         i < j => Position(pushOrder, respOrder[i]) < Position(pushOrder, respOrder[j])

\* C4 witness: two clients had requests in the queue at once and both were answered.
C4_Witness ==
    /\ Len(pushOrder) = 2
    /\ Len(respOrder) = 2
    /\ \A c \in Clients : clients[c].request_id # NoRequestId
    /\ \E c \in Clients : clients[c].pc = "waiting"

\* C5: the worker handles one request at a time: from pop to response push, the
\* handling of a request never overlaps the handling of another.
C5_OneRequestAtATime == Cardinality(handling) <= 1

\* C5 witness: an order placement is being handled while another caller's order
\* placement waits in the queue.
C5_Witness ==
    /\ wpc = "respond"
    /\ request.operation = "place_entry_order"
    /\ response.success
    /\ requestQueue # <<>>
    /\ Head(requestQueue).operation = "place_entry_order"
    /\ Head(requestQueue).simulation = request.simulation

\* C6: after a request for a mode fails with an error classified as a connection
\* fault the stored session of the mode is absent, and a later request for the mode
\* logs in anew and never runs against a session a classified fault came from.
C6_FreshSessionAfterConnectionFault ==
    [][(wpc = "handle" /\ wpc' = "respond") =>
          /\ (response'.error.prefix # "" => api_clients'[request.simulation] = NoSession)
          /\ (used' # NoSession => \A f \in faulted : f.session # used')
          /\ ((used' # NoSession /\ api_clients[request.simulation] = NoSession)
                 => (used' = nextSession /\ nextSession' = nextSession + 1))]_vars

\* C6 witness: a request ran successfully against a session of a mode in which an
\* earlier session had produced a classified connection fault.
C6_Witness ==
    /\ wpc = "respond"
    /\ response.success
    /\ used # NoSession
    /\ \E f \in faulted : f.simulation = request.simulation /\ f.session # used

\* the business rejections: unknown contract, account not signed or not provided,
\* target contract does not exist, unknown product
BusinessRejection(e) ==
    e.type \in {"ValueError", "AccountNotSignError", "AccountNotProvideError",
                "TargetContractNotExistError", "ProductNotFound"}

\* C7: a request that fails with a business rejection, in any operation, leaves the
\* connection state of both modes unchanged (the session it ran against stays the
\* stored session) and is answered with success=false carrying the error text.
C7_BusinessRejectionKeepsConnection ==
    [][(wpc = "handle" /\ wpc' = "respond" /\ BusinessRejection(fault')) =>
          /\ api_clients'[request.simulation] = used'
          /\ api_clients'[~request.simulation] = api_clients[~request.simulation]
          /\ response'.success = FALSE
          /\ response'.error.text = fault'.text]_vars

\* an error of a connection-fault kind: TokenError, SystemMaintenance, SDK timeout,
\* or a free-text error matching a connection pattern
ConnectionFaultKind(e) ==
    \/ e.type \in {"TokenError", "SystemMaintenance", "SjTimeoutError"}
    \/ e.type = "Exception" /\ is_connection_error(e.text)

\* C8: when an operation of any kind fails with an error of a connection-fault kind,
\* the worker classifies it as a connection fault and the mode's connection is
\* invalidated before the failure response is sent.
C8_ConnectionFaultInvalidates ==
    [][(wpc = "handle" /\ wpc' = "respond" /\ ConnectionFaultKind(fault')) =>
          /\ api_clients'[request.simulation] = NoSession
          /\ response'.success = FALSE
          /\ response'.error.prefix # ""]_vars

\* C11: create(t), when the tenant's credential material is absent (no credential
\* record, or the credential store exports nothing), fails with
\* CredentialsNotFoundError and allocates no slot: a tenant that had no instance
\* when the call began has none holding a slot after the failure.  (Calls do not
\* interleave: SpecSerial.)
C11_NoSlotAfterCredentialsNotFound ==
    [][last'.outcome = "CredentialsNotFoundError" =>
          /\ last'.op = "create" => instances' = instances
          /\ \A m \in Managers :
               (mgr[m].pc = "written" /\ mgr'[m].pc = "idle" /\ ~mgr[m].existing)
                   => \A r \in instances' : r.tenant_id # last'.tenant_id]_vars

\* the slots of 0..15 that no instance in an allocated status holds
FreeDbs(rows) == (0 .. NumRedisDbs - 1) \ UsedDbs(rows)

\* C12: slot allocation returns the lowest slot of 0..15 that is not held; instances
\* created one after the other hold distinct slots of 0..15; when all 16 slots are
\* held a create fails with an exhaustion error and changes no instance; and after
\* destroy has released an instance's slot, the next allocation returns that slot when
\* it is the lowest free one.
C12_LowestFreeSlot ==
    /\ [][(last'.op = "create" /\ last'.outcome = "allocated") =>
             \A m \in Managers : mgr'[m].pc # "idle" =>
                /\ mgr'[m].redis_db \in FreeDbs(instances)
                /\ \A d \in FreeDbs(instances) : mgr'[m].redis_db <= d]_vars
    /\ [][(last'.op = "create" /\ FreeDbs(instances) = {}) =>
             /\ instances' = instances
             /\ last'.outcome \in {"WorkerAlreadyRunningError", "WorkerManagerError"}
             /\ (\A r \in instances : r.tenant_id # last'.tenant_id) =>
                    (last'.outcome = "WorkerManagerError"
                     /\ last'.cause = "TenantServiceError")]_vars
    /\ [][(last'.op = "destroy" /\ last'.outcome = "ok") =>
             \A r \in instances \ instances' :
                /\ r.tenant_id = last'.tenant_id
                /\ instances' = instances \ {r}
                /\ (\A x \in instances' : x.redis_db # r.redis_db)
                       => r.redis_db \in FreeDbs(instances')
                /\ (r.redis_db \in FreeDbs(instances')
                    /\ \A d \in FreeDbs(instances') : r.redis_db <= d)
                       => allocate_redis_db(instances') = r.redis_db]_vars
    /\ []((\A i \in 1..Len(audit) :
              audit[i].action \notin {"worker_stopped", "worker_hibernated"})
          => \A r1 \in instances, r2 \in instances :
                /\ r1.redis_db \in 0 .. NumRedisDbs - 1
                /\ (r1 # r2 => r1.redis_db # r2.redis_db))

\* C12 witness: sixteen instances hold the sixteen slots, the sixteenth created by a
\* call of the model, and the create of a seventeenth tenant failed for want of a slot.
C12_Witness ==
    /\ Cardinality(instances) = NumRedisDbs
    /\ FreeDbs(instances) = {}
    /\ last.op = "create"
    /\ last.cause = "TenantServiceError"
    /\ \A r \in instances : r.tenant_id # last.tenant_id
    /\ \E r \in instances : r.tenant_id \in Tenants /\ r.redis_db = NumRedisDbs - 1

\* the instance of tenant t has status st, before a step of a call on t
HasStatus(t, sts) == \E r \in instances : r.tenant_id = t /\ r.status \in sts

\* nothing the orchestrator keeps or manages has changed
OrchestratorUnchanged ==
    instances' = instances /\ containers' = containers /\ audit' = audit

\* C13: start(t) on an instance that is Stopped, Error or Pending and whose container
\* exists, when the backend starts the container, ends with status Running, a start
\* timestamp recorded, the stop timestamp and error_message cleared, and the instance
\* keeps its slot (and its container).
C13_StartEndsRunning ==
    [][\A r \in instances :
          (/\ last'.op = "start" /\ last'.tenant_id = r.tenant_id
           /\ r.status \in {"stopped", "error", "pending"}
           /\ ContainerFound(r.container_id)
           /\ last'.outcome # "WorkerManagerError")
          => /\ last'.outcome = "ok"
             /\ instances' = (instances \ {r}) \cup
                   {[r EXCEPT !.status = "running", !.started_at = "set",
                              !.stopped_at = "null", !.error_message = "null"]}
             /\ \E c \in containers' : c.id = r.container_id /\ c.state = "running"]_vars

\* C13 witness: a stopped instance was started: it is Running again with the stop
\* timestamp cleared.
C13_Witness ==
    /\ last = Event("start", last.tenant_id, "ok")
    /\ Len(audit) >= 2
    /\ audit[Len(audit) - 1].action = "worker_stopped"
    /\ audit[Len(audit) - 1].tenant_id = last.tenant_id
    /\ \E r \in instances :
         /\ r.tenant_id = last.tenant_id
         /\ r.status = "running" /\ r.stopped_at = "null" /\ r.started_at = "set"

\* C14: start(t) on an instance that is already Running is a no-op: no error, no
\* container start, no field of the instance changed, no audit entry.
C14_StartOnRunningIsNoop ==
    [][\A t \in Tenants :
          (last'.op = "start" /\ last'.tenant_id = t /\ HasStatus(t, {"running"}))
          => (last'.outcome = "noop" /\ OrchestratorUnchanged)]_vars

\* C14 witness: start was called on a running instance and returned it as it was.
C14_Witness ==
    /\ last = Event("start", last.tenant_id, "noop")
    /\ \E r \in instances :
         /\ r.tenant_id = last.tenant_id /\ r.status = "running"
         /\ \E c \in containers : c.id = r.container_id

\* C15: stop(t) on an instance that is Stopped or Pending is a no-op (no container
\* call, no field changed, no audit entry); on any other status, when the backend
\* reports no API error, it ends with status Stopped and a stop timestamp recorded.
C15_StopNoopOrStopped ==
    [][\A r \in instances :
          (last'.op = "stop" /\ last'.tenant_id = r.tenant_id)
          => IF r.status \in {"stopped", "pending"}
             THEN last'.outcome = "noop" /\ OrchestratorUnchanged
             ELSE last'.outcome # "WorkerManagerError"
                  => /\ last'.outcome = "ok"
                     /\ instances' = (instances \ {r}) \cup
                           {[r EXCEPT !.status = "stopped", !.stopped_at = "set"]}]_vars

\* C15 witness: stop was called on a Pending instance that has no container yet.
C15_Witness ==
    /\ last = Event("stop", last.tenant_id, "noop")
    /\ \E r \in instances :
         /\ r.tenant_id = last.tenant_id
         /\ r.status = "pending" /\ r.container_id = NoContainer

\* the container the instance records is gone from the backend
ContainerGone(r) == r.container_id # NoContainer /\ ~ContainerFound(r.container_id)

\* C16: when the container of an instance no longer exists, stop and destroy treat
\* it as already stopped or removed: stop raises nothing and ends with status Stopped
\* (where it is not the no-op on Stopped or Pending), destroy completes, removing the instance and with it its hold on the slot; stop
\* and destroy of an instance that records a container fail only when the container
\* exists and the backend reports an API error.
C16_MissingContainerIsStopped ==
    [][\A r \in instances :
          /\ (last'.op = "stop" /\ last'.tenant_id = r.tenant_id /\ ContainerGone(r))
             => /\ IF r.status \in {"stopped", "pending"}
                   THEN last'.outcome = "noop"
                   ELSE /\ last'.outcome = "ok"
                        /\ \E x \in instances' : x.id = r.id /\ x.status = "stopped"
                /\ containers' = containers
          /\ (last'.op = "destroy" /\ last'.tenant_id = r.tenant_id /\ ContainerGone(r))
             => /\ last'.outcome = "ok"
                /\ instances' = instances \ {r}
                /\ containers' = containers
          /\ (/\ last'.op \in {"stop", "destroy"} /\ last'.tenant_id = r.tenant_id
              /\ r.container_id # NoContainer
              /\ last'.outcome \notin {"ok", "noop"})
             => /\ ContainerFound(r.container_id)
                /\ last'.outcome \in {"WorkerManagerError", "APIError"}]_vars

\* C16 witness: a running instance whose container had been removed was stopped.
C16_Witness ==
    /\ last = Event("stop", last.tenant_id, "ok")
    /\ Len(audit) >= 1
    /\ audit[Len(audit)].action = "worker_stopped"
    /\ \E r \in instances :
         /\ r.tenant_id = last.tenant_id
         /\ r.status = "stopped" /\ r.stopped_at = "set"
         /\ ContainerGone(r)

\* C17: hibernate(t) leaves the instance holding its slot: a create for another tenant
\* made while an instance is Hibernating is not given that instance's slot, hibernate
\* changes neither the slot nor the container of the instance, and a wake of the
\* hibernating instance ends in Running with the same slot and the same container.
C17_HibernateKeepsSlot ==
    /\ [][(last'.op = "create" /\ last'.outcome = "allocated") =>
             \A m \in Managers, r \in instances :
                (mgr'[m].pc # "idle" /\ r.status = "hibernating"
                 /\ r.tenant_id # last'.tenant_id)
                => mgr'[m].redis_db # r.redis_db]_vars
    /\ [][\A r \in instances :
             /\ (last'.op = "hibernate" /\ last'.tenant_id = r.tenant_id
                 /\ last'.outcome = "ok")
                => instances' = (instances \ {r}) \cup
                      {[r EXCEPT !.status = "hibernating", !.stopped_at = "set"]}
             /\ (last'.op = "wake" /\ last'.tenant_id = r.tenant_id
                 /\ last'.outcome = "ok")
                => /\ r.status = "hibernating"
                   /\ instances' = (instances \ {r}) \cup
                         {[r EXCEPT !.status = "running", !.started_at = "set",
                                    !.stopped_at = "null"]}]_vars

\* C17 witness: an instance was hibernated, another tenant's create then got a
\* different slot, and the wake brought the instance back to Running on its slot.
C17_Witness ==
    /\ last = Event("wake", last.tenant_id, "ok")
    /\ Len(audit) >= 3
    /\ audit[Len(audit) - 2].action = "worker_hibernated"
    /\ audit[Len(audit) - 2].tenant_id = last.tenant_id
    /\ audit[Len(audit) - 1].action = "worker_started"
    /\ audit[Len(audit) - 1].tenant_id # last.tenant_id
    /\ audit[Len(audit) - 1].redis_db # NoSlot
    /\ \E r1 \in instances, r2 \in instances :
         /\ r1.tenant_id = last.tenant_id /\ r1.status = "running"
         /\ r2.tenant_id # last.tenant_id
         /\ r2.redis_db = audit[Len(audit) - 1].redis_db
         /\ r1.redis_db # r2.redis_db

\* C18: wake(t) on an instance whose status is not Hibernating fails with an error
\* and leaves the instance's status and timestamps, the containers and the audit log
\* unchanged.
C18_WakeNeedsHibernating ==
    [][\A r \in instances :
          (last'.op = "wake" /\ last'.tenant_id = r.tenant_id
           /\ r.status # "hibernating")
          => (last'.outcome = "WorkerManagerError" /\ OrchestratorUnchanged)]_vars

\* C18 witness: wake was refused on a stopped instance whose container exists.
C18_Witness ==
    /\ last = Event("wake", last.tenant_id, "WorkerManagerError")
    /\ \E r \in instances :
         /\ r.tenant_id = last.tenant_id
         /\ r.status = "stopped"
         /\ ContainerFound(r.container_id)

\* C19: destroy(t) is idempotent: on a tenant with no instance it raises nothing and
\* changes nothing, and a destroy call that the backend does not fail with an API
\* error leaves the tenant without an instance, so that a second destroy changes
\* nothing and the slot the instance held is no longer held by it.
C19_DestroyIdempotent ==
    [][\A t \in Tenants :
          (last'.op = "destroy" /\ last'.tenant_id = t /\ last'.outcome # "APIError")
          => /\ \A r \in instances' : r.tenant_id # t
             /\ \A r \in instances' : r \in instances
             /\ (\A r \in instances : r.tenant_id # t)
                    => (last'.outcome = "noop" /\ OrchestratorUnchanged)]_vars

\* the edges of the stated machine for WorkerInstance.status
StatusEdges ==
    {<<"pending", "starting">>, <<"starting", "running">>, <<"running", "stopping">>,
     <<"stopping", "stopped">>, <<"running", "hibernating">>,
     <<"hibernating", "running">>, <<"stopped", "pending">>, <<"error", "pending">>}
    \cup {<<s, "error">> : s \in WorkerStatus}

\* C20: every status change an orchestrator operation makes to an instance follows an
\* edge of the stated machine; in particular Running is reached only from Starting or
\* Hibernating, and Hibernating only from Running.
C20_StatusChangesFollowEdges ==
    [][\A r \in instances, x \in instances' :
          (x.id = r.id /\ x.status # r.status) => <<r.status, x.status>> \in StatusEdges]_vars

\* the steps that complete a lifecycle operation
LifecycleOps == {"create_finish", "start", "stop", "hibernate", "wake", "destroy"}

\* C21: every successful lifecycle operation that changes a worker (create, start,
\* stop, hibernate, wake, destroy) appends one audit entry for that tenant, committed
\* together with the change; no-op and failed operations append none; and no existing
\* audit entry is ever modified or deleted.
C21_AuditOnEverySuccess ==
    [][/\ (last'.op \in LifecycleOps /\ last'.outcome = "ok")
          => /\ Len(audit') = Len(audit) + 1
             /\ audit'[Len(audit')].tenant_id = last'.tenant_id
       /\ (last'.op \in LifecycleOps \cup {"create"}
           /\ last'.outcome \notin {"ok", "allocated"})
          => audit' = audit
       /\ Len(audit') >= Len(audit)
       /\ \A i \in 1..Len(audit) : audit'[i] = audit[i]]_vars

PushedIds == {pushOrder[i] : i \in 1..Len(pushOrder)}
QueuedIds == {requestQueue[i].request_id : i \in 1..Len(requestQueue)}
PoppedIds == {popOrder[i] : i \in 1..Len(popOrder)}

\* the submit call for the id raised TimeoutError
TimedOut(id) ==
    \E c \in Clients : /\ clients[c].request_id = id
                        /\ clients[c].pc = "idle"
                        /\ clients[c].result = "TimeoutError"

C23_ResponseKeysExpire ==
    \A id \in RequestIds : responseKeys[id] # <<>> => ttl[id]
\* C24: each submit call pushes exactly one request, under an id no earlier request
\* had, and the request queue grows by nothing else; a call that gets no response
\* raises TimeoutError without pushing again, which is another outcome than a
\* response with success=false and than ConnectionError.
C24_OnePushPerSubmit ==
    /\ [](\A id \in RequestIds : Count(pushOrder, id) <= 1)
    /\ [][\A c \in Clients :
            (clients[c].pc = "idle" /\ clients'[c].pc = "waiting")
               => /\ clients'[c].request_id \notin PushedIds
                  /\ pushOrder' = Append(pushOrder, clients'[c].request_id)
                  /\ Len(requestQueue') = Len(requestQueue) + 1
                  /\ requestQueue'[Len(requestQueue')].request_id = clients'[c].request_id]_vars
    /\ [][pushOrder' # pushOrder
            => \E c \in Clients : clients[c].pc = "idle" /\ clients'[c].pc = "waiting"]_vars
    /\ [][\A c \in Clients :
            (clients[c].pc = "waiting" /\ clients'[c].pc = "idle")
               => /\ pushOrder' = pushOrder
                  /\ requestQueue' = requestQueue
                  /\ clients'[c].result \in {"response", "TimeoutError", "ConnectionError"}
                  /\ clients'[c].result = "TimeoutError"
                        => (responseKeys[clients[c].request_id] = <<>>
                            /\ delivered' = delivered)
                  /\ clients'[c].result = "response"
                        => delivered'[clients[c].request_id]
                              = delivered[clients[c].request_id] + 1]_vars

\* C24 witness: one submit call returned a response with success=false and another
\* raised TimeoutError, each for its own id, and each id was pushed once.
C24_Witness ==
    \E c1 \in Clients, c2 \in Clients :
        /\ clients[c1].pc = "idle" /\ clients[c1].result = "response"
        /\ ~clients[c1].response.success
        /\ clients[c2].pc = "idle" /\ clients[c2].result = "TimeoutError"
        /\ clients[c1].request_id # clients[c2].request_id
        /\ Count(pushOrder, clients[c1].request_id) = 1
        /\ Count(pushOrder, clients[c2].request_id) = 1
\* C25: once a termination signal has arrived and the iteration it arrived in has
\* ended, the worker pops no request any more; it invalidates every mode that holds
\* a session and run() returns, with both modes absent, and nothing happens in the
\* worker after that.
C25_SignalStopsWorker ==
    /\ [][(signalled /\ wpc = "loop")
            => (wpc' \in {"loop", "stopped"} /\ popOrder' = popOrder)]_vars
    /\ [](wpc = "stopped" => \A sim \in BOOLEAN : api_clients[sim] = NoSession)
    /\ [][wpc = "stopped"
            => (wpc' = "stopped" /\ popOrder' = popOrder /\ api_clients' = api_clients)]_vars
    /\ signalled ~> (wpc = "stopped")

\* C25 witness: run() has returned after a signal; the worker had logged in and
\* handled a request, no session was lost to a fault, and a request pushed before
\* the worker stopped is still in the queue.
C25_Witness ==
    /\ wpc = "stopped"
    /\ signalled
    /\ nextSession > 1
    /\ faulted = {}
    /\ popOrder # <<>>
    /\ requestQueue # <<>>
\* C26: when a request finds no session for its mode and the login fails on every
\* one of the MAX_RECONNECT_ATTEMPTS attempts, the request is answered with
\* success=false and the loop goes on with the mode absent; a call that has to log
\* in, also one after such a failure, starts with the first attempt and gives up only
\* after the last.
C26_LoginExhaustedAnswersFailure ==
    [][(wpc = "handle" /\ wpc' = "respond" /\ api_clients[request.simulation] = NoSession)
          => /\ attempts' \in 1..MAX_RECONNECT_ATTEMPTS
             /\ used' = NoSession
                   => /\ attempts' = MAX_RECONNECT_ATTEMPTS
                      /\ ~response'.success
                      /\ response'.request_id = request.request_id
                      /\ api_clients'[request.simulation] = NoSession
                      /\ exhausted'[request.simulation] > 0]_vars

\* C26 witness: a request was answered with success=false because every login attempt
\* failed, in a mode in which an earlier call had already used up its attempts.
C26_Witness ==
    /\ wpc = "respond"
    /\ used = NoSession
    /\ attempts = MAX_RECONNECT_ATTEMPTS
    /\ ~response.success
    /\ api_clients[request.simulation] = NoSession
    /\ exhausted[request.simulation] = 2
\* C27: every request the worker pops is answered by exactly one response pushed on
\* its response key: whenever the worker is between two iterations, the requests
\* answered are the requests popped, in the same order.
C27_EveryPoppedRequestAnswered ==
    wpc \notin {"handle", "respond"} => respOrder = popOrder
Abs(n) == IF n < 0 THEN 0 - n ELSE n

\* the signed position of the contract the request's symbol names: long positive,
\* short negative, none 0
SignedPosition ==
    LET codes == {c.code : c \in ContractsOf(order_in.symbol)}
        hits == {i \in 1..Len(order_in.positions) : order_in.positions[i].code \in codes}
    IN  IF hits = {} THEN 0
        ELSE LET pos == order_in.positions[SetMin(hits)] IN
             IF pos.side = "Buy" THEN pos.quantity
             ELSE IF pos.side = "Sell" THEN 0 - pos.quantity ELSE 0

\* C28: an entry order for quantity q > 0 is placed with quantity q + |p| when the
\* action opposes the signed position p of the contract (Buy against a short, Sell
\* against a long position) and with q otherwise; the response carries the placed
\* quantity, the requested quantity q and the code of the matched contract.
C28_EntryQuantity ==
    (order_in.operation = "place_entry_order" /\ order_out.placed) =>
        LET q == order_in.quantity
            p == SignedPosition
            opposes == \/ order_in.action = "Buy" /\ p < 0
                       \/ order_in.action = "Sell" /\ p > 0
        IN  /\ order_out.action = order_in.action
            /\ order_out.quantity = IF opposes THEN q + Abs(p) ELSE q
            /\ order_out.success
            /\ order_out.data.quantity = order_out.quantity
            /\ order_out.data.original_quantity = q
            /\ \E c \in Contracts : c.symbol = order_in.symbol
                                     /\ order_out.data.code = c.code

\* C28 witness: Buy 5 against a short position of 3 was placed with quantity 8.
C28_Witness ==
    /\ order_in.operation = "place_entry_order"
    /\ order_in.action = "Buy"
    /\ order_in.quantity = 5
    /\ SignedPosition = 0 - 3
    /\ order_out.placed
    /\ order_out.quantity = 8
    /\ order_out.data.original_quantity = 5

\* C29: an exit order is placed only when the contract has a position in the stated
\* direction (long for Buy, short for Sell), with the opposite action and the size of
\* the position as quantity; when there is no such position no order is placed, no
\* pending trade is stored, and the response is success=true with no order id and
\* the message "No position to exit".
C29_ExitOnlyExistingPosition ==
    (order_in.operation = "place_exit_order" /\ order_out.done /\ ~order_out.raised) =>
        LET p == SignedPosition
            held == \/ order_in.action = "Buy" /\ p > 0
                    \/ order_in.action = "Sell" /\ p < 0
        IN  /\ order_out.placed
               => /\ held
                  /\ order_out.action = (IF order_in.action = "Buy" THEN "Sell" ELSE "Buy")
                  /\ order_out.quantity = Abs(p)
                  /\ order_out.stores
            /\ ~held
               => /\ ~order_out.placed
                  /\ ~order_out.stores
                  /\ order_out.success
                  /\ order_out.data.order_id = "none"
                  /\ order_out.data.message = "No position to exit"

\* C29 witness: an exit of a long position was asked for while the contract's
\* position is short; nothing was placed and the response says so.
C29_Witness ==
    /\ order_in.operation = "place_exit_order"
    /\ order_in.action = "Buy"
    /\ SignedPosition < 0
    /\ order_out.done
    /\ ~order_out.placed
    /\ order_out.success
    /\ order_out.data.message = "No position to exit"
\* the values check_worker_health returns
HealthResults == {"unknown", "healthy", "unhealthy"}

\* C30: a health check that returns gives Unknown, Healthy or Unhealthy, and when the
\* tenant has an instance, the instance's persisted health_status after the call is
\* the value returned and its check timestamp was written by the call.
C30_HealthResultPersisted ==
    [][(last'.op = "health" /\ last'.outcome \notin {"NullResource", "APIError"})
          => /\ last'.outcome \in HealthResults
             /\ \A r \in instances :
                   r.tenant_id = last'.tenant_id
                      => \E n \in instances' :
                            /\ n.id = r.id
                            /\ n.health_status = last'.outcome
                            /\ n.last_health_check > r.last_health_check]_vars
\* the step ends a create, start, stop or wake call in which the backend raised APIError
BackendFailed ==
    \/ /\ last'.op = "create_finish"
       /\ last'.outcome = "WorkerManagerError"
       /\ last'.cause = "APIError"
    \/ /\ last'.op \in {"start", "stop"}
       /\ last'.outcome = "WorkerManagerError"
    \/ /\ last'.op = "wake"
       /\ last'.outcome = "WorkerManagerError"
       /\ \E r \in instances : r.tenant_id = last'.tenant_id /\ r.status \in WakeStatuses

\* C37: when the backend fails with an API error during create, start, stop or wake,
\* the call raises the orchestration error and the tenant's persisted instance is
\* left in status Error with the error message recorded (so that a later create is
\* accepted).
C37_ApiErrorPersistsErrorStatus ==
    [][BackendFailed
          => \E r \in instances' :
                /\ r.tenant_id = last'.tenant_id
                /\ r.status = "error"
                /\ r.error_message # "null"]_vars
\* the step handles a check_order_status request and finds a trade under its key
TradeLocated ==
    /\ wpc = "handle" /\ wpc' = "respond"
    /\ request.operation = "check_order_status"
    /\ used' # NoSession
    /\ fault'.type # "TradeNotFound"

\* C39: check_order_status under mode m finds a trade only if an order with the key
\* was placed by this worker under mode m, so that no trade is polled through the
\* session of the other mode; a key never placed is answered with success=false,
\* "Trade not found".
C39_TradeLocatedInOwnMode ==
    [][/\ TradeLocated
          => \E tr \in pending_trades : /\ tr.key = request.params.trade_key
                                        /\ tr.simulation = request.simulation
       /\ (/\ wpc = "handle" /\ wpc' = "respond"
           /\ request.operation = "check_order_status"
           /\ used' # NoSession
           /\ \A tr \in pending_trades : tr.key # request.params.trade_key)
          => (~response'.success /\ fault'.type = "TradeNotFound")]_vars
\* C40: an order that came through the tenant gateway reaches the brokerage with the
\* direction asked for: long_entry places a Buy and short_entry a Sell entry order,
\* long_exit closes a long position (a Sell against a positive position) and
\* short_exit closes a short position (a Buy against a negative position).
C40_GatewayKeepsDirection ==
    (gateway_in.route = "tenant" /\ order_out.placed) =>
        /\ gateway_in.action = "long_entry"
              => (order_in.operation = "place_entry_order" /\ order_out.action = "Buy")
        /\ gateway_in.action = "short_entry"
              => (order_in.operation = "place_entry_order" /\ order_out.action = "Sell")
        /\ gateway_in.action = "long_exit"
              => /\ order_in.operation = "place_exit_order"
                 /\ order_out.action = "Sell"
                 /\ SignedPosition > 0
        /\ gateway_in.action = "short_exit"
              => /\ order_in.operation = "place_exit_order"
                 /\ order_out.action = "Buy"
                 /\ SignedPosition < 0
\* C36: once a termination signal has been delivered at any point after the handlers
\* were registered, also before run() has entered its loop, the worker eventually
\* leaves the main loop and run() returns.
C36_AnySignalStopsWorker == signalled ~> (wpc = "stopped")
\* thread th is inside _invalidate_connection
Invalidating(th) == threads[th].pc \in {"invalidate", "lock", "logout", "wait"}

\* C31: invalidating a connection always completes.  When logout is called on the
\* old session, the mode's stored reference has been cleared already; the call
\* returns with the mode absent and the invalidating flag cleared; and every call
\* that was entered returns, whether logout returns, raises or hangs.
C31_InvalidationCompletes ==
    /\ [][\A th \in Threads :
            /\ (threads[th].pc = "logout" /\ threads'[th].pc = "wait")
                  => /\ api_clients[threads[th].simulation] = NoSession
                     /\ \A sim \in BOOLEAN : api_clients[sim] # threads[th].api
            /\ (Invalidating(th) /\ threads'[th].pc \notin {"invalidate", "lock",
                                                            "logout", "wait"})
                  => /\ api_clients'[threads[th].simulation] = NoSession
                     /\ ~invalidating'[threads[th].simulation]]_vars
    /\ \A th \in Threads : Invalidating(th) ~> ~Invalidating(th)

\* C31 witness: run() is back in its loop after an invalidation whose logout never
\* returned; the mode is absent, the flag is cleared and the lock is free.
C31_Witness ==
    /\ threads[MainThread].pc = "idle"
    /\ threads[MainThread].outcome = "hangs"
    /\ api_clients[threads[MainThread].simulation] = NoSession
    /\ ~invalidating[threads[MainThread].simulation]
    /\ connection_lock = NoThread
    /\ \E x \in 1..MaxSessions : sessions[x].logouts = 1
\* C32: invalidation requests for one mode that overlap, from any threads and in any
\* interleaving, are coalesced: logout is called at most once on any session object,
\* and the invalidating flags are false whenever no thread is inside the cleanup.
C32_InvalidationsCoalesced ==
    /\ \A x \in 1..MaxSessions : sessions[x].logouts <= 1
    /\ (\A th \in Threads : threads[th].pc \notin {"logout", "wait"})
          => \A sim \in BOOLEAN : ~invalidating[sim]

\* C32 witness: three threads are in _invalidate_connection for the same mode at
\* once: one waits for the logout it started, one waits for the lock and one is
\* about to read the flag.
C32_Witness ==
    \E th1, th2, th3 \in Threads :
        /\ threads[th1].pc = "wait"
        /\ threads[th2].pc = "lock"
        /\ threads[th3].pc = "invalidate"
        /\ threads[th2].simulation = threads[th1].simulation
        /\ threads[th3].simulation = threads[th1].simulation
        /\ invalidating[threads[th1].simulation]
        /\ sessions[threads[th1].api].logouts = 1
\* C38: every session on which login succeeded is the stored session of its mode, or
\* logout has been called on it, or it is the old session of an invalidation that is
\* about to call logout: no logged-in session is dropped without sign-off, also not
\* across the attempts of the login retry loop.
C38_NoSessionDropped ==
    \A x \in 1..MaxSessions :
        sessions[x].logged_in =>
            \/ api_clients[sessions[x].simulation] = x
            \/ sessions[x].logouts >= 1
            \/ \E th \in Threads : threads[th].pc = "logout" /\ threads[th].api = x
\* C34: the two modes are tracked independently.  The session stored for mode s was
\* created for mode s, and a request with simulation = s is executed on a session
\* created for mode s; and while run()'s thread connects mode s, fails to connect
\* it or invalidates it, the stored session and the last_successful_request of the
\* other mode do not change.
C34_ModesIndependent ==
    /\ [](/\ \A sim \in BOOLEAN :
                (api_clients[sim] # NoSession)
                   => (sessions[api_clients[sim]].simulation = sim)
          /\ (sdk_call.kind = "execute")
                => (sessions[sdk_call.session].simulation = sdk_call.simulation))
    /\ [][(threads[MainThread].pc = "connect" \/ Invalidating(MainThread))
            => /\ api_clients'[~threads[MainThread].simulation]
                    = api_clients[~threads[MainThread].simulation]
               /\ last_successful_request'[~threads[MainThread].simulation]
                    = last_successful_request[~threads[MainThread].simulation]]_vars

\* C34 witness: the simulation session is being logged out while the live mode keeps
\* its own session and its own, later, time of last success; the live session is not
\* the first one that was logged in for the live mode.
C34_Witness ==
    /\ threads[MainThread].pc = "wait"
    /\ threads[MainThread].simulation = TRUE
    /\ api_clients[TRUE] = NoSession
    /\ api_clients[FALSE] # NoSession
    /\ sessions[api_clients[FALSE]].simulation = FALSE
    /\ last_successful_request[FALSE] > last_successful_request[TRUE]
    /\ \E x \in 1..MaxSessions :
          sessions[x].logged_in /\ ~sessions[x].simulation /\ x # api_clients[FALSE]
\* the step issues the probe call of the health round
ProbeStep ==
    /\ threads[MainThread].pc = "foreach"
    /\ threads' # threads
    /\ sdk_call'.kind = "probe"

\* C33: on an idle poll whose health round runs, a connected mode whose last
\* successful request is older than the health-check interval gets the probe call;
\* a probe that fails with a connection fault invalidates that mode's connection;
\* a probe that succeeds refreshes last_successful_request; and a probe is issued
\* only for a mode that holds a session and only from the idle branch of the loop,
\* never while a request is being handled.
C33_IdleProbe ==
    [][LET t == threads[MainThread]
       IN  /\ (/\ t.pc = "foreach" /\ t.caller = "refresh" /\ t.todo # <<>>
                /\ threads' # threads
                /\ api_clients[Head(t.todo)] # NoSession
                /\ clock - last_successful_request[Head(t.todo)] > HEALTH_CHECK_INTERVAL)
                 => (sdk_call'.kind = "probe" /\ sdk_call'.simulation = Head(t.todo))
           /\ (ProbeStep /\ sdk_call'.result = "raises"
                         /\ ConnectionFaultKind(sdk_call'.exc))
                 => /\ threads'[MainThread].pc = "invalidate"
                    /\ threads'[MainThread].simulation = sdk_call'.simulation
           /\ (ProbeStep /\ sdk_call'.result = "accounts")
                 => last_successful_request'[sdk_call'.simulation] = clock
           /\ ProbeStep
                 => /\ api_clients[sdk_call'.simulation] # NoSession
                    /\ t.caller = "refresh"]_vars
\* C35: a response is delivered only to the caller that submitted the matching
\* request, also when several tenants' callers and workers use one store database:
\* the response a submit call returns carries the request id that call generated,
\* and the request a worker pops was pushed for the worker's own tenant.
C35_ResponsesAndQueuesIsolated ==
    /\ \A c \in Callers :
          callers[c].got \notin {"", "TimeoutError"}
             => callers[c].got = callers[c].request_id
    /\ \A t \in TenantIds :
          tworkers[t].request # NoTenantRequest
             => tworkers[t].request.pushed_for = t

\* C35 witness: on the shared database a caller of one tenant has received the
\* response to its request, while the other tenant's worker holds the request of a
\* second caller that is still waiting, and a third request lies in a queue.
C35_Witness ==
    \E c1, c2 \in Callers, t \in TenantIds :
        /\ callers[c1].pc = "idle"
        /\ callers[c1].got = callers[c1].request_id
        /\ callers[c1].got # ""
        /\ callers[c1].tenant_id # t
        /\ callers[c2].pc = "waiting"
        /\ callers[c2].tenant_id = t
        /\ tworkers[t].pc = "respond"
        /\ tworkers[t].request.request_id = callers[c2].request_id
        /\ \E u \in TenantIds : store[request_queue(get_queue_prefix(u, ""))] # <<>>
====
